---- MODULE Spec2Model ----
(***************************************************************************)
(* WeatherBuddy: the user-preference store (userPreferenceService), the    *)
(* location directory (config/locations.js), the per-minute scheduler      *)
(* (index.js scheduleTask), the push pipeline (index.js getWeatherAndPush)  *)
(* and the command handler (messageHandler).                               *)
(*                                                                         *)
(* Text values the code converts or matches (push times, messages) are     *)
(* sequences of one-character strings, so that the regular expressions,    *)
(* split(":") and Number() are computed character by character.            *)
(* Location codes are only compared by the code; they are atoms.           *)
(***************************************************************************)
EXTENDS Integers, Sequences, FiniteSets, TLC

VARIABLES prefFile, defaultCode, clock, ticks, acked, lastCall, run, reply, jwt

vars == <<prefFile, defaultCode, clock, ticks, acked, lastCall, run, reply, jwt>>

(***************************************************************************)
(* Universe of the model                                                   *)
(***************************************************************************)
Uids == {"u1", "u2"}

\* data/locations.json: city -> district -> {code, name}; in key order.
\* Names are sequences of characters (one syllable stands for one Chinese character).
\* The third entry is a district whose own name ends in the character "xian" (county).
Directory ==
  << [city |-> <<"bei","jing">>, district |-> <<"chao","yang">>, code |-> "101010900",
      name |-> <<"bei","jing","chao","yang">>],
     [city |-> <<"nan","jing">>, district |-> <<"jiang","ning">>, code |-> "101190104",
      name |-> <<"nan","jing","jiang","ning">>],
     [city |-> <<"jin","zhong">>, district |-> <<"qi","xian">>, code |-> "101100406",
      name |-> <<"jin","zhong","qi","xian">>] >>

\* location codes handed to setUserLocationPreference: two directory codes, one unknown
CodeInputs == {"101010900", "101190104", "999999999"}

\* the wall-clock minutes the model visits, in order, cyclically
Clocks ==
  << [hour |-> 8, minute |-> 30], [hour |-> 8, minute |-> 31], [hour |-> 20, minute |-> 0] >>

\* time strings handed to updatePushTime
TimeInputs ==
  { <<"0","8",":","3","0">>, <<"8",":","3","0">>, <<"0","8",":","3","1">>,
    <<"8",":","3","1">>, <<"2","0",":","0","0">>, <<"2","5",":","0","0">>,
    <<"9",":","7","5">>, <<"2","4",":","0","0">>, <<"0","8",":","6","0">>,
    <<"0","8","3","0">>, <<"8",":","3">>, <<"a","b",":","c","d">>, <<>> }

\* user lists the provider's lookup can return (uids are unique in the provider's records)
EligibleLists == { <<"u1">>, <<"u2">>, <<"u1","u2">>, <<"u2","u1">>, <<>> }

\* what the provider's user-list request can settle to: a response with code 1000 and
\* a list, a response with another code, or an exception (network error)
LookupResponses ==
  {[status |-> "1000", uids |-> l] : l \in EligibleLists}
    \cup {[status |-> "1001", uids |-> <<>>], [status |-> "exception", uids |-> <<>>]}

TickIds == {"t1"}

(***************************************************************************)
(* Strings                                                                 *)
(***************************************************************************)
DigitChars == <<"0","1","2","3","4","5","6","7","8","9">>

isDigit(c) == \E i \in 1..10 : DigitChars[i] = c

DigitValue(c) == (CHOOSE i \in 1..10 : DigitChars[i] = c) - 1

\* sentinel for NaN / undefined: never equal to an hour or a minute
NaN == -1

\* Number.prototype.toString for a non-negative integer
RECURSIVE toString(_)
toString(n) ==
  IF n < 10 THEN << DigitChars[n + 1] >>
  ELSE toString(n \div 10) \o << DigitChars[(n % 10) + 1] >>

\* String.prototype.padStart(targetLength, padChar)
RECURSIVE padStart(_, _, _)
padStart(s, targetLength, c) ==
  IF Len(s) >= targetLength THEN s ELSE padStart(<<c>> \o s, targetLength, c)

\* String.prototype.split(sep) for a one-character separator
RECURSIVE split(_, _)
split(s, sep) ==
  IF \A i \in 1..Len(s) : s[i] # sep THEN << s >>
  ELSE LET k == CHOOSE i \in 1..Len(s) : s[i] = sep /\ \A j \in 1..(i - 1) : s[j] # sep
       IN  << SubSeq(s, 1, k - 1) >> \o split(SubSeq(s, k + 1, Len(s)), sep)

\* Number(string) for the strings the model meets: "" is 0, a digit string is its
\* decimal value, anything else is NaN
RECURSIVE Number(_)
Number(s) ==
  IF Len(s) = 0 THEN 0
  ELSE IF \E i \in 1..Len(s) : ~isDigit(s[i]) THEN NaN
  ELSE Number(SubSeq(s, 1, Len(s) - 1)) * 10 + DigitValue(s[Len(s)])

(***************************************************************************)
(* config/locations.js                                                     *)
(***************************************************************************)
NoLocation == [set |-> FALSE, city |-> <<>>, district |-> <<>>, code |-> "", name |-> <<>>]

Location(city, district, code, name) ==
  [set |-> TRUE, city |-> city, district |-> district, code |-> code, name |-> name]

\* isLocationValidCode accepting every code
isLocationValidCode_any(locationCode) == TRUE

\* isLocationValid(locationCode): one argument, a scan for the code
isLocationValidCode(locationCode) ==
  \E i \in 1..Len(Directory) : Directory[i].code = locationCode

\* isLocationValid(city, district): two arguments, a lookup by names
isLocationValid(city, district) ==
  \E i \in 1..Len(Directory) : Directory[i].city = city /\ Directory[i].district = district

\* locations[city]?.[district]?.code ("" stands for undefined)
getLocationCode(city, district) ==
  IF isLocationValid(city, district)
  THEN Directory[CHOOSE i \in 1..Len(Directory) :
                   Directory[i].city = city /\ Directory[i].district = district].code
  ELSE ""

getLocationName(city, district) ==
  IF isLocationValid(city, district)
  THEN Directory[CHOOSE i \in 1..Len(Directory) :
                   Directory[i].city = city /\ Directory[i].district = district].name
  ELSE <<>>

\* getLocationInfo returning the first entry of the directory for every known code
getLocationInfo_first(locationCode) ==
  IF \E i \in 1..Len(Directory) : Directory[i].code = locationCode
  THEN Location(Directory[1].city, Directory[1].district, locationCode, Directory[1].name)
  ELSE NoLocation

\* getLocationInfo(locationCode): the first entry, in key order, with that code;
\* NoLocation stands for null
getLocationInfo(locationCode) ==
  IF \E i \in 1..Len(Directory) : Directory[i].code = locationCode
  THEN LET k == CHOOSE i \in 1..Len(Directory) :
                  /\ Directory[i].code = locationCode
                  /\ \A j \in 1..(i - 1) : Directory[j].code # locationCode
       IN  Location(Directory[k].city, Directory[k].district, locationCode, Directory[k].name)
  ELSE NoLocation

(***************************************************************************)
(* services/userPreferenceService.js                                       *)
(*                                                                         *)
(* The file data/userPreferences.json is {users: {uid: {location,          *)
(* pushTime}}}.  prefFile.exists says whether the file exists; a uid       *)
(* without a key in users has present = FALSE; a record without a          *)
(* location has location.set = FALSE; a record without a pushTime has the  *)
(* empty pushTime (the code tests both with !x).                           *)
(*                                                                         *)
(* Every exported operation is wrapped by withErrorHandling(fn, true): the *)
(* body runs synchronously when the operation is called, and the call's    *)
(* promise resolves to the body's result or to {error} when it throws.     *)
(* The operators below give the file after the call, the value the promise *)
(* resolves to (ret), and the log of the last value written per uid and    *)
(* field (acked).                                                          *)
(***************************************************************************)
NoRecord == [present |-> FALSE, location |-> NoLocation, pushTime |-> <<>>]

EmptyUsers == [u \in Uids |-> NoRecord]

NoAck == [u \in Uids |-> [location |-> "", pushTime |-> <<>>]]

\* the value a wrapped call resolves to
Returned(location, time) == [error |-> "", location |-> location, time |-> time]

Failed(errorName) == [error |-> errorName, location |-> NoLocation, time |-> <<>>]

\* config.defaultLocation.code = process.env.LOCATION || "101190104"
DefaultCodes == {"101190104", "101010900"}

\* ensurePreferenceFileExists rewriting the empty file on every call
ensurePreferenceFileExists_recreate(file) == [exists |-> TRUE, users |-> EmptyUsers]

\* ensurePreferenceFileExists: creates {users: {}} when the file is missing
ensurePreferenceFileExists(file) ==
  IF file.exists THEN file ELSE [exists |-> TRUE, users |-> EmptyUsers]

\* defaultLocation with the code literal in place of the configured code
defaultLocation_hardcoded(configCode) ==
  Location(<<"nan","jing">>, <<"jiang","ning">>, "101190104",
           getLocationName(<<"nan","jing">>, <<"jiang","ning">>))

\* defaultLocation of getUserLocationPreference
defaultLocation(configCode) ==
  Location(<<"nan","jing">>, <<"jiang","ning">>, configCode,
           getLocationName(<<"nan","jing">>, <<"jiang","ning">>))

\* getUserLocationPreference creating a record with the default location for a
\* uid that has none
getUserLocationPreference_createRecord(file0, ack, configCode, uid) ==
  LET file == ensurePreferenceFileExists(file0)
      def  == defaultLocation(configCode)
  IN  [file  |-> [file EXCEPT !.users[uid] =
                    IF file.users[uid].present /\ file.users[uid].location.set
                    THEN file.users[uid]
                    ELSE [file.users[uid] EXCEPT !.present = TRUE, !.location = def]],
       acked |-> ack,
       ret   |-> Returned(def, <<>>)]

\* getUserLocationPreference(uid)
getUserLocationPreference(file0, ack, configCode, uid) ==
  LET file == ensurePreferenceFileExists(file0)
      rec  == file.users[uid]
      def  == defaultLocation(configCode)
  IN  IF rec.present /\ rec.location.set
         /\ isLocationValid(rec.location.city, rec.location.district)
      THEN LET city     == rec.location.city
               district == rec.location.district
               code     == getLocationCode(city, district)
           IN  [file  |-> file, acked |-> ack,
                ret   |-> IF code = ""
                          THEN Returned(Location(city, district, def.code, city \o district), <<>>)
                          ELSE Returned(Location(city, district, code,
                                                 getLocationName(city, district)), <<>>)]
      ELSE IF rec.present /\ ~rec.location.set
      THEN [file  |-> [file EXCEPT !.users[uid].location = def],
            acked |-> [ack EXCEPT ![uid].location = def.code],
            ret   |-> Returned(def, <<>>)]
      ELSE [file |-> file, acked |-> ack, ret |-> Returned(def, <<>>)]

\* setUserLocationPreference assigning a whole new record instead of merging
setUserLocationPreference_replace(file0, ack, uid, locationCode) ==
  LET file == ensurePreferenceFileExists(file0)
  IN  IF ~isLocationValidCode(locationCode)
      THEN [file |-> file, acked |-> ack, ret |-> Failed("ValidationError")]
      ELSE LET location == getLocationInfo(locationCode)
           IN  [file  |-> [file EXCEPT !.users[uid] =
                             [present  |-> TRUE,
                              location |-> Location(location.city, location.district,
                                                    locationCode, location.name),
                              pushTime |-> <<>>]],
                acked |-> [ack EXCEPT ![uid].location = locationCode],
                ret   |-> Returned(NoLocation, <<>>)]

\* setUserLocationPreference(uid, locationCode)
setUserLocationPreference(file0, ack, uid, locationCode) ==
  LET file == ensurePreferenceFileExists(file0)
  IN  IF ~isLocationValidCode(locationCode)
      THEN [file |-> file, acked |-> ack, ret |-> Failed("ValidationError")]
      ELSE LET location == getLocationInfo(locationCode)
               rec      == IF file.users[uid].present
                           THEN file.users[uid]
                           ELSE [NoRecord EXCEPT !.present = TRUE]
           IN  [file  |-> [file EXCEPT !.users[uid] =
                             [rec EXCEPT !.location =
                                Location(location.city, location.district,
                                         locationCode, location.name)]],
                acked |-> [ack EXCEPT ![uid].location = locationCode],
                ret   |-> Returned(NoLocation, <<>>)]

\* /^(\d):([0-5]\d)$/
singleDigitMatch(time) ==
  /\ Len(time) = 4
  /\ isDigit(time[1])
  /\ time[2] = ":"
  /\ time[3] \in {"0","1","2","3","4","5"}
  /\ isDigit(time[4])

\* formattedTime without the single-digit conversion
formattedTime_asIs(time) == time

\* formattedTime = `0${m[1]}:${m[2]}` when the single-digit pattern matches
formattedTime(time) ==
  IF singleDigitMatch(time)
  THEN <<"0">> \o << time[1] >> \o <<":">> \o << time[3], time[4] >>
  ELSE time

\* /^([01]\d|2[0-3]):([0-5]\d)$/
timePattern(time) ==
  /\ Len(time) = 5
  /\ \/ time[1] \in {"0","1"} /\ isDigit(time[2])
     \/ time[1] = "2" /\ time[2] \in {"0","1","2","3"}
  /\ time[3] = ":"
  /\ time[4] \in {"0","1","2","3","4","5"}
  /\ isDigit(time[5])

\* updatePushTime(uid, time)
updatePushTime(file0, ack, uid, time) ==
  LET file == ensurePreferenceFileExists(file0)
  IN  IF ~timePattern(formattedTime(time))
      THEN [file |-> file, acked |-> ack, ret |-> Failed("ValidationError")]
      ELSE LET rec == IF file.users[uid].present
                      THEN file.users[uid]
                      ELSE [NoRecord EXCEPT !.present = TRUE]
           IN  [file  |-> [file EXCEPT !.users[uid] =
                             [rec EXCEPT !.pushTime = formattedTime(time)]],
                acked |-> [ack EXCEPT ![uid].pushTime = formattedTime(time)],
                ret   |-> Returned(NoLocation, <<>>)]

\* getPushTime(uid)
getPushTime(file0, ack, uid) ==
  LET file == ensurePreferenceFileExists(file0)
      rec  == file.users[uid]
  IN  [file  |-> file, acked |-> ack,
       ret   |-> IF rec.present /\ rec.pushTime # <<>>
                 THEN Returned(NoLocation, rec.pushTime)
                 ELSE Returned(NoLocation, <<"2","0",":","0","0">>)]

(***************************************************************************)
(* index.js scheduleTask: the body of the per-minute job                   *)
(***************************************************************************)
defaultPushHour == 20

defaultPushMinute == 0

\* defaultPushTimeString without padStart
defaultPushTimeString_noPad ==
  toString(defaultPushHour) \o <<":">> \o toString(defaultPushMinute)

\* `${defaultPushHour}:${defaultPushMinute.toString().padStart(2, "0")}`
defaultPushTimeString ==
  toString(defaultPushHour) \o <<":">> \o padStart(toString(defaultPushMinute), 2, "0")

\* the location literal the job writes for a new record
schedulerDefaultLocation ==
  Location(<<"nan","jing">>, <<"jiang","ning">>, "101190104", <<"nan","jing","jiang","ning">>)

\* resolvePushTime without the writes: the default is used but not stored
resolvePushTime_noBackfill(file, ack, uid) ==
  IF file.exists /\ file.users[uid].present /\ file.users[uid].pushTime # <<>>
  THEN [file |-> file, acked |-> ack, userPushTime |-> file.users[uid].pushTime]
  ELSE [file |-> file, acked |-> ack, userPushTime |-> defaultPushTimeString]

\* resolvePushTime writing a file that holds only the new record
resolvePushTime_clobber(file, ack, uid) ==
  IF file.exists /\ file.users[uid].present /\ file.users[uid].pushTime # <<>>
  THEN [file |-> file, acked |-> ack, userPushTime |-> file.users[uid].pushTime]
  ELSE [file  |-> [exists |-> TRUE,
                   users  |-> [EmptyUsers EXCEPT ![uid] =
                                 [present  |-> TRUE,
                                  location |-> schedulerDefaultLocation,
                                  pushTime |-> defaultPushTimeString]]],
        acked |-> [ack EXCEPT ![uid] =
                     [location |-> schedulerDefaultLocation.code,
                      pushTime |-> defaultPushTimeString]],
        userPushTime |-> defaultPushTimeString]

\* loop body, first half: read the file, take the stored pushTime or the default,
\* and make sure the uid has a record with a pushTime
resolvePushTime(file, ack, uid) ==
  IF file.exists
  THEN LET rec == file.users[uid]
       IN  IF rec.present /\ rec.pushTime # <<>>
           THEN [file |-> file, acked |-> ack, userPushTime |-> rec.pushTime]
           ELSE IF ~rec.present
           THEN [file  |-> [file EXCEPT !.users[uid] =
                              [present  |-> TRUE,
                               location |-> schedulerDefaultLocation,
                               pushTime |-> defaultPushTimeString]],
                 acked |-> [ack EXCEPT ![uid] =
                              [location |-> schedulerDefaultLocation.code,
                               pushTime |-> defaultPushTimeString]],
                 userPushTime |-> defaultPushTimeString]
           ELSE [file  |-> [file EXCEPT !.users[uid].pushTime = defaultPushTimeString],
                 acked |-> [ack EXCEPT ![uid].pushTime = defaultPushTimeString],
                 userPushTime |-> defaultPushTimeString]
  ELSE [file  |-> [exists |-> TRUE,
                   users  |-> [EmptyUsers EXCEPT ![uid] =
                                 [present  |-> TRUE,
                                  location |-> schedulerDefaultLocation,
                                  pushTime |-> defaultPushTimeString]]],
        acked |-> [ack EXCEPT ![uid] =
                     [location |-> schedulerDefaultLocation.code,
                      pushTime |-> defaultPushTimeString]],
        userPushTime |-> defaultPushTimeString]

\* reachedPushTime with the minute comparison dropped
reachedPushTime_hourOnly(userPushTime, now) ==
  LET parts == split(userPushTime, ":")
  IN  Number(parts[1]) = now.hour

\* loop body, second half: [hour, minute] = userPushTime.split(":").map(Number),
\* compared with the current hour and minute
reachedPushTime(userPushTime, now) ==
  LET parts  == split(userPushTime, ":")
      hour   == Number(parts[1])
      minute == IF Len(parts) >= 2 THEN Number(parts[2]) ELSE NaN
  IN  hour = now.hour /\ minute = now.minute

\* for (const uid of userUids) { ... usersToPush.push(uid) }
RECURSIVE checkUsers(_, _, _, _, _)
checkUsers(file, ack, userUids, now, usersToPush) ==
  IF userUids = <<>>
  THEN [file |-> file, acked |-> ack, usersToPush |-> usersToPush]
  ELSE LET uid == Head(userUids)
           r   == resolvePushTime(file, ack, uid)
       IN  checkUsers(r.file, r.acked, Tail(userUids), now,
                      IF reachedPushTime(r.userPushTime, now)
                      THEN Append(usersToPush, uid)
                      ELSE usersToPush)

(***************************************************************************)
(* index.js getWeatherAndPush: one pipeline per uid of the list, in order  *)
(***************************************************************************)
\* the synchronous head of one uid's pipeline: getUserLocationPreference(uid) is
\* called (its promise is not awaited, so only its effect on the file counts), the
\* file is read directly, and the code for the forecast request is chosen
resolveLocationCode(file, uid) ==
  LET rec  == file.users[uid]
      code == IF rec.present /\ rec.location.set THEN rec.location.code ELSE ""
  IN  IF code = "" \/ code = "undefined" THEN "101190104" ELSE code

startPipeline(file0, ack, configCode, uid) ==
  LET r == getUserLocationPreference(file0, ack, configCode, uid)
  IN  [file |-> r.file, acked |-> r.acked, locationCode |-> resolveLocationCode(r.file, uid)]

(***************************************************************************)
(* State                                                                   *)
(*   prefFile     data/userPreferences.json                                *)
(*   defaultCode  config.defaultLocation.code, fixed at startup            *)
(*   clock        index in Clocks of the current wall-clock minute         *)
(*   ticks        per job invocation: where its callback stands            *)
(*     pc            "idle" | "lookup" | "fetch" | "suggest" | "format" |  *)
(*                   "push" | "done"                                       *)
(*     userUids      the list getEnabledUserUids resolved to               *)
(*     usersToPush   the uids the loop matched                             *)
(*     idx           position in usersToPush of the pipeline in flight     *)
(*     locationCode  the code of the forecast request in flight            *)
(*     invoked, failed, raced  history of this invocation                  *)
(*     lookupFailed  the user-list request of this invocation failed       *)
(*     firedAt       while the user list is awaited: the index in Clocks   *)
(*                   of the minute at which the invocation fired           *)
(*   acked        last value written per uid and field                     *)
(*   lastCall     the last direct call of a store operation and its result *)
(*   run          a getWeatherAndPush(targetUids) call followed step by    *)
(*                step, with the values it passes between its steps        *)
(*   reply        the last command message handled and the reply card      *)
(*   jwt          the token module: its clock (seconds), cachedToken,       *)
(*                tokenExpiry, and the getJWTToken calls in flight          *)
(***************************************************************************)
IdleTick ==
  [pc |-> "idle", userUids |-> <<>>, usersToPush |-> <<>>, idx |-> 0,
   locationCode |-> "", invoked |-> <<>>, failed |-> <<>>, raced |-> "no",
   lookupFailed |-> FALSE, firedAt |-> 0]

\* the three chart requests of formatWeatherData, in the order of the message
ChartTypes == <<"temperature", "rainfall", "wind">>

NoCharts == [c \in {"temperature", "rainfall", "wind"} |-> "none"]

\* no forecast yet / response.data undefined
NoForecast == [present |-> FALSE, hasDaily |-> FALSE, daily |-> <<>>]

NoMessage == [rendered |-> FALSE, charts |-> <<>>, trend |-> FALSE, clothing |-> "none"]

IdleRun ==
  [pc |-> "idle", targetUids |-> <<>>, idx |-> 0, locationCode |-> "",
   weatherData |-> NoForecast, tomorrow |-> "", suggestion |-> "null",
   suggestionFailed |-> FALSE,
   charts |-> NoCharts, message |-> NoMessage, pushes |-> <<>>, failed |-> <<>>]

NoReply ==
  [command |-> "none", uid |-> "", city |-> <<>>, district |-> <<>>,
   title |-> "", type |-> "", before |-> EmptyUsers,
   message |-> <<>>, threw |-> FALSE, isHtml |-> FALSE, shown |-> <<>>,
   hasData |-> FALSE, contentKind |-> "",
   status |-> 0, success |-> FALSE, pushes |-> <<>>, runs |-> <<>>]

\* the getJWTToken calls that can be in flight at once
CallIds == {"c1", "c2"}

\* cachedToken = null; a token is known by its iat and exp claims
NoToken == [present |-> FALSE, iat |-> 0, exp |-> 0]

IdleCall ==
  [pc |-> "idle", now |-> 0, iat |-> 0, token |-> NoToken, generated |-> FALSE]

NoJwt ==
  [tick |-> 1, now |-> 0, cachedToken |-> NoToken, tokenExpiry |-> 0,
   calls |-> [c \in CallIds |-> IdleCall]]

NoCall ==
  [op |-> "none", uid |-> "", code |-> "", time |-> <<>>, ret |-> Failed(""),
   before |-> EmptyUsers, prevOp |-> "none", prevUid |-> "", prevCode |-> ""]

Now == Clocks[clock]

NextClock == IF clock = Len(Clocks) THEN 1 ELSE clock + 1

Init ==
  /\ prefFile \in {[exists |-> FALSE, users |-> EmptyUsers],
                   [exists |-> TRUE, users |-> EmptyUsers]}
  /\ defaultCode \in DefaultCodes
  /\ clock \in 1..Len(Clocks)
  /\ ticks = [t \in TickIds |-> IdleTick]
  /\ acked = NoAck
  /\ lastCall = NoCall
  /\ run = IdleRun
  /\ reply = NoReply
  /\ jwt = NoJwt

(***************************************************************************)
(* The scheduler: node-schedule invokes the job at every minute boundary   *)
(***************************************************************************)
\* a minute boundary: the job callback starts and awaits getEnabledUserUids()
TickFire(t) ==
  /\ ticks[t].pc \in {"idle", "done"}
  /\ clock' = NextClock
  /\ ticks' = [ticks EXCEPT ![t] = [IdleTick EXCEPT !.pc = "lookup", !.firedAt = NextClock]]
  /\ UNCHANGED <<jwt, prefFile, defaultCode, acked, lastCall, run, reply>>

\* a minute boundary while every modelled invocation is still in flight
MinutePasses ==
  /\ \A t \in TickIds : ticks[t].pc \notin {"idle", "done"}
  /\ clock' = NextClock
  /\ UNCHANGED <<jwt, prefFile, defaultCode, ticks, acked, lastCall, run, reply>>

\* AdvanceTo starting the pipelines of all remaining uids together
AdvanceTo_allAtOnce(tk, i, file, ack) ==
  IF i > Len(tk.usersToPush)
  THEN [file |-> file, acked |-> ack,
        tick |-> [tk EXCEPT !.pc = "done", !.locationCode = ""]]
  ELSE LET uid == tk.usersToPush[i]
           p   == startPipeline(file, ack, defaultCode, uid)
       IN  [file |-> p.file, acked |-> p.acked,
            tick |-> [tk EXCEPT !.pc = "fetch", !.idx = i,
                                !.locationCode = p.locationCode,
                                !.invoked = tk.invoked
                                              \o SubSeq(tk.usersToPush, i, Len(tk.usersToPush))]]

\* the tick record when the pipeline of usersToPush[i] starts, or "done" past the end
AdvanceTo(tk, i, file, ack) ==
  IF i > Len(tk.usersToPush)
  THEN [file |-> file, acked |-> ack,
        tick |-> [tk EXCEPT !.pc = "done", !.locationCode = ""]]
  ELSE LET uid == tk.usersToPush[i]
           p   == startPipeline(file, ack, defaultCode, uid)
       IN  [file |-> p.file, acked |-> p.acked,
            tick |-> [tk EXCEPT !.pc = "fetch", !.idx = i,
                                !.locationCode = p.locationCode,
                                !.invoked = Append(tk.invoked, uid)]]

\* getEnabledUserUids with the failures answered from a remembered list
getEnabledUserUids_stale(response) ==
  IF response.status = "1000" THEN response.uids ELSE <<"u1">>

\* userService.getEnabledUserUids: the uids of the response, [] when the response
\* code is not 1000 or the request throws
getEnabledUserUids(response) ==
  IF response.status = "1000" THEN response.uids ELSE <<>>

\* getEnabledUserUids() resolves; the rest of the callback up to the first await of
\* the first pipeline runs in one go
LookupReturn(t, response) ==
  /\ ticks[t].pc = "lookup"
  /\ IF getEnabledUserUids(response) = <<>>
     THEN /\ ticks' = [ticks EXCEPT ![t] = [@ EXCEPT !.pc = "done", !.raced = "no",
                                                     !.firedAt = 0,
                                                     !.lookupFailed = response.status # "1000"]]
          /\ UNCHANGED <<prefFile, acked>>
     ELSE LET list == getEnabledUserUids(response)
              c  == checkUsers(prefFile, acked, list, Now, <<>>)
              tk == [ticks[t] EXCEPT
                       !.userUids = list,
                       !.firedAt = 0,
                       !.lookupFailed = response.status # "1000",
                       !.usersToPush = c.usersToPush,
                       !.raced = IF ticks[t].raced = "cmd" /\ c.file # prefFile
                                 THEN "both" ELSE "no"]
              a  == AdvanceTo(tk, 1, c.file, c.acked)
          IN  /\ ticks' = [ticks EXCEPT ![t] = a.tick]
              /\ prefFile' = a.file
              /\ acked' = a.acked
  /\ UNCHANGED <<jwt, defaultCode, clock, lastCall, run, reply>>

\* NextUser with the catch outside the loop: a failure ends the whole run
NextUser_abortOnFailure(t, didFail) ==
  LET tk == [ticks[t] EXCEPT
               !.failed = IF didFail THEN Append(@, ticks[t].usersToPush[ticks[t].idx]) ELSE @]
      a  == AdvanceTo(tk, IF didFail THEN Len(tk.usersToPush) + 1 ELSE tk.idx + 1,
                      prefFile, acked)
  IN  /\ ticks' = [ticks EXCEPT ![t] = a.tick]
      /\ prefFile' = a.file
      /\ acked' = a.acked

\* the catch of one uid's pipeline, or its last statement: on to the next uid
NextUser(t, didFail) ==
  LET tk == [ticks[t] EXCEPT
               !.failed = IF didFail THEN Append(@, ticks[t].usersToPush[ticks[t].idx]) ELSE @]
      a  == AdvanceTo(tk, tk.idx + 1, prefFile, acked)
  IN  /\ ticks' = [ticks EXCEPT ![t] = a.tick]
      /\ prefFile' = a.file
      /\ acked' = a.acked

\* getWeatherByLocation settles: it throws, or the forecast has fewer than 2 daily
\* entries (getTomorrowWeather throws), or the suggestion request is sent
FetchReturn(t, outcome) ==
  /\ ticks[t].pc = "fetch"
  /\ IF outcome = "ok"
     THEN /\ ticks' = [ticks EXCEPT ![t].pc = "suggest", ![t].locationCode = ""]
          /\ UNCHANGED <<prefFile, acked>>
     ELSE NextUser(t, TRUE)
  /\ UNCHANGED <<jwt, defaultCode, clock, lastCall, run, reply>>

\* getClothingSuggestion settles (it returns a text in every case); formatting starts
SuggestReturn(t) ==
  /\ ticks[t].pc = "suggest"
  /\ ticks' = [ticks EXCEPT ![t].pc = "format"]
  /\ UNCHANGED <<jwt, prefFile, defaultCode, clock, acked, lastCall, run, reply>>

\* formatWeatherData settles: it throws, or the push request is sent
FormatReturn(t, outcome) ==
  /\ ticks[t].pc = "format"
  /\ IF outcome = "ok"
     THEN /\ ticks' = [ticks EXCEPT ![t].pc = "push"]
          /\ UNCHANGED <<prefFile, acked>>
     ELSE NextUser(t, TRUE)
  /\ UNCHANGED <<jwt, defaultCode, clock, lastCall, run, reply>>

\* PushReturn dropping the rest of the list after a delivered push
PushReturn_stopAfterFirst(t, outcome) ==
  /\ ticks[t].pc = "push"
  /\ IF outcome = "ok"
     THEN /\ ticks' = [ticks EXCEPT ![t].pc = "done", ![t].locationCode = ""]
          /\ UNCHANGED <<prefFile, acked>>
     ELSE NextUser(t, TRUE)
  /\ UNCHANGED <<jwt, defaultCode, clock, lastCall, run, reply>>

\* pushMessageToUsers settles
PushReturn(t, outcome) ==
  /\ ticks[t].pc = "push"
  /\ NextUser(t, outcome # "ok")
  /\ UNCHANGED <<jwt, defaultCode, clock, lastCall, run, reply>>

(***************************************************************************)
(* services/messageHandler.js: the commands that reach the store.  The     *)
(* inbound callback runs handleMessage synchronously; the reply is pushed  *)
(* afterwards.                                                             *)
(***************************************************************************)
\* city and district texts of a "set location" command
CityInputs == { <<"bei","jing","shi">>, <<"nan","jing">>, <<"shang","hai">> }

DistrictInputs == { <<"chao","yang","qu">>, <<"jiang","ning">>, <<"pu","dong">> }

\* time texts of a "set push time" command
CommandTimeInputs ==
  { <<"0","8",":","3","0">>, <<"8",":","3","1">>, <<"2","0",":","0","0">>,
    <<"2","5",":","0","0">>, <<"9",":","7","5">>, <<"a","b",":","c","d">> }

\* s.replace(/<suffix>$/, "")
stripSuffix(s, suffix) ==
  IF Len(s) >= 1 /\ s[Len(s)] = suffix THEN SubSeq(s, 1, Len(s) - 1) ELSE s

\* the capture (\d{1,2}:\d{2})$ of handleSetPushTime
pushTimeArgMatch(arg) ==
  \/ /\ Len(arg) = 4
     /\ isDigit(arg[1]) /\ arg[2] = ":" /\ isDigit(arg[3]) /\ isDigit(arg[4])
  \/ /\ Len(arg) = 5
     /\ isDigit(arg[1]) /\ isDigit(arg[2]) /\ arg[3] = ":"
     /\ isDigit(arg[4]) /\ isDigit(arg[5])

\* a store write that lands while an invocation awaits the user list
MarkRace(file) ==
  [t \in TickIds |->
     IF ticks[t].pc = "lookup" /\ file.users # prefFile.users
     THEN [ticks[t] EXCEPT !.raced = "cmd"]
     ELSE ticks[t]]

\* handleSetLocation, after the message matched: strip the suffixes, look the pair
\* up, and store the directory's code for it
handleSetLocation(uid, cityText, districtText) ==
  LET city     == stripSuffix(cityText, "shi")
      district == stripSuffix(stripSuffix(districtText, "qu"), "xian")
  IN  /\ isLocationValid(city, district)
      /\ LET r == setUserLocationPreference(prefFile, acked, uid,
                                            getLocationCode(city, district))
         IN  /\ prefFile' = r.file
             /\ acked' = r.acked
             /\ ticks' = MarkRace(r.file)
      /\ UNCHANGED <<jwt, defaultCode, clock, lastCall, run, reply>>

\* handleSetPushTime, after the message matched
handleSetPushTime(uid, arg) ==
  /\ pushTimeArgMatch(arg)
  /\ LET r == updatePushTime(prefFile, acked, uid, arg)
     IN  /\ prefFile' = r.file
         /\ acked' = r.acked
         /\ ticks' = MarkRace(r.file)
  /\ UNCHANGED <<jwt, defaultCode, clock, lastCall, run, reply>>

\* handleGetCurrentLocation
handleGetCurrentLocation(uid) ==
  /\ LET r == getUserLocationPreference(prefFile, acked, defaultCode, uid)
     IN  /\ prefFile' = r.file
         /\ acked' = r.acked
         /\ ticks' = MarkRace(r.file)
  /\ UNCHANGED <<jwt, defaultCode, clock, lastCall, run, reply>>

Next ==
  \/ \E t \in TickIds : TickFire(t)
  \/ MinutePasses
  \/ \E t \in TickIds, response \in LookupResponses : LookupReturn(t, response)
  \/ \E t \in TickIds, outcome \in {"ok", "fail", "short"} : FetchReturn(t, outcome)
  \/ \E t \in TickIds : SuggestReturn(t)
  \/ \E t \in TickIds, outcome \in {"ok", "fail"} : FormatReturn(t, outcome)
  \/ \E t \in TickIds, outcome \in {"ok", "fail"} : PushReturn(t, outcome)
  \/ \E uid \in Uids, c \in CityInputs, d \in DistrictInputs : handleSetLocation(uid, c, d)
  \/ \E uid \in Uids, arg \in CommandTimeInputs : handleSetPushTime(uid, arg)
  \/ \E uid \in Uids : handleGetCurrentLocation(uid)

Spec == Init /\ [][Next]_vars

(***************************************************************************)
(* The store's operations called directly, one call per step, with the     *)
(* call, the users before it and its result recorded in lastCall           *)
(***************************************************************************)
Called(op, uid, code, time, r) ==
  /\ prefFile' = r.file
  /\ acked' = r.acked
  /\ lastCall' = [op |-> op, uid |-> uid, code |-> code, time |-> time, ret |-> r.ret,
                  before |-> prefFile.users,
                  prevOp |-> IF op = "getUserLocationPreference" THEN lastCall.op ELSE "none",
                  prevUid |-> IF op = "getUserLocationPreference" THEN lastCall.uid ELSE "",
                  prevCode |-> IF op = "getUserLocationPreference" THEN lastCall.code ELSE ""]
  /\ UNCHANGED <<jwt, defaultCode, clock, ticks, run, reply>>

CallSetUserLocationPreference(uid, locationCode) ==
  LET r == setUserLocationPreference(prefFile, acked, uid, locationCode)
  IN  /\ lastCall.op \in {"none", "setUserLocationPreference", "updatePushTime",
                          "getUserLocationPreference", "getPushTime"}
      /\ Called("setUserLocationPreference", uid, locationCode, <<>>, r)

CallUpdatePushTime(uid, time) ==
  LET r == updatePushTime(prefFile, acked, uid, time)
  IN  /\ lastCall.op \in {"none", "setUserLocationPreference", "updatePushTime",
                          "getUserLocationPreference", "getPushTime"}
      /\ Called("updatePushTime", uid, "", time, r)

CallGetUserLocationPreference(uid) ==
  LET r == getUserLocationPreference(prefFile, acked, defaultCode, uid)
  IN  /\ lastCall.op \in {"none", "setUserLocationPreference", "updatePushTime",
                          "getUserLocationPreference", "getPushTime"}
      /\ Called("getUserLocationPreference", uid, "", <<>>, r)

CallGetPushTime(uid) ==
  LET r == getPushTime(prefFile, acked, uid)
  IN  /\ lastCall.op \in {"none", "setUserLocationPreference", "updatePushTime",
                          "getUserLocationPreference", "getPushTime"}
      /\ Called("getPushTime", uid, "", <<>>, r)

StoreNext ==
  \/ \E uid \in Uids, code \in CodeInputs : CallSetUserLocationPreference(uid, code)
  \/ \E uid \in Uids, time \in TimeInputs : CallUpdatePushTime(uid, time)
  \/ \E uid \in Uids : CallGetUserLocationPreference(uid)
  \/ \E uid \in Uids : CallGetPushTime(uid)

StoreSpec == Init /\ [][StoreNext]_vars

(***************************************************************************)
(* Spec with the progress the runtime gives: node-schedule fires the job   *)
(* at every minute boundary, and every awaited request settles (the code   *)
(* sets no timeout: that each request settles is the assumption)           *)
(***************************************************************************)
TickStep ==
  \/ \E t \in TickIds : TickFire(t)
  \/ \E t \in TickIds, response \in LookupResponses : LookupReturn(t, response)
  \/ \E t \in TickIds, outcome \in {"ok", "fail", "short"} : FetchReturn(t, outcome)
  \/ \E t \in TickIds : SuggestReturn(t)
  \/ \E t \in TickIds, outcome \in {"ok", "fail"} : FormatReturn(t, outcome)
  \/ \E t \in TickIds, outcome \in {"ok", "fail"} : PushReturn(t, outcome)

FairSpec == Init /\ [][Next]_vars /\ WF_vars(TickStep)

(***************************************************************************)
(* getWeatherAndPush(targetUids) step by step: the forecast, the tomorrow   *)
(* entry, the suggestion, the three chart requests, the message and the    *)
(* push request of each uid's pipeline                                     *)
(***************************************************************************)
\* response.data of the forecast request: nothing, an object without daily, or an
\* object whose daily array has 0 to 3 entries
Forecasts ==
  { NoForecast, [present |-> TRUE, hasDaily |-> FALSE, daily |-> <<>>] }
    \cup {[present |-> TRUE, hasDaily |-> TRUE, daily |-> d] :
            d \in {<<>>, <<"day0">>, <<"day0","day1">>, <<"day0","day1","day2">>}}

\* what the suggestion request can settle to: choices with a text, choices with a
\* text shorter than 10 characters, a body without choices, an exception
SuggestionResponses == {"text", "shortText", "noChoices", "exception"}

\* getTomorrowWeather without the length check: daily[1], undefined when absent
getTomorrowWeather_unchecked(weatherData) ==
  IF Len(weatherData.daily) < 2
  THEN [threw |-> FALSE, value |-> "undefined"]
  ELSE [threw |-> FALSE, value |-> weatherData.daily[2]]

\* weatherService.getTomorrowWeather
getTomorrowWeather(weatherData) ==
  IF ~weatherData.present \/ ~weatherData.hasDaily \/ Len(weatherData.daily) < 2
  THEN [threw |-> TRUE, value |-> ""]
  ELSE [threw |-> FALSE, value |-> weatherData.daily[2]]

\* deepseekService.formatSuggestion
formatSuggestion(suggestion) ==
  IF suggestion = "shortText" THEN "cannotGenerateText" ELSE "adviceText"

\* deepseekService.getClothingSuggestion: the text it resolves to
getClothingSuggestion(response) ==
  IF response = "exception" THEN "cannotGetJudgeYourselfText"
  ELSE IF response = "noChoices" THEN "cannotGetText"
  ELSE formatSuggestion(response)

\* formatWeatherData dropping every chart when one of the three failed
formatWeatherData_allOrNothing(weatherData, clothingSuggestion, charts) ==
  IF ~weatherData.present \/ ~weatherData.hasDaily \/ Len(weatherData.daily) < 2
  THEN NoMessage
  ELSE [rendered |-> TRUE,
        trend    |-> Len(weatherData.daily) >= 3,
        charts   |-> IF Len(weatherData.daily) >= 3
                        /\ \A c \in DOMAIN charts : charts[c] = "url"
                     THEN ChartTypes
                     ELSE <<>>,
        clothing |-> IF clothingSuggestion # "null" /\ clothingSuggestion # ""
                     THEN clothingSuggestion ELSE "none"]

\* formatWeatherData once the chart requests have settled: the sections of the page
formatWeatherData(weatherData, clothingSuggestion, charts) ==
  IF ~weatherData.present \/ ~weatherData.hasDaily \/ Len(weatherData.daily) < 2
  THEN NoMessage
  ELSE [rendered |-> TRUE,
        trend    |-> Len(weatherData.daily) >= 3,
        charts   |-> IF Len(weatherData.daily) >= 3
                     THEN SelectSeq(ChartTypes, LAMBDA c : charts[c] = "url")
                     ELSE <<>>,
        clothing |-> IF clothingSuggestion # "null" /\ clothingSuggestion # ""
                     THEN clothingSuggestion ELSE "none"]

\* the run when the pipeline of targetUids[i] starts, or "done" past the end
StartPipeline(r, i, file, ack) ==
  IF i > Len(r.targetUids)
  THEN [file |-> file, acked |-> ack,
        run |-> [r EXCEPT !.pc = "done", !.locationCode = "", !.weatherData = NoForecast,
                          !.tomorrow = "",
                          !.suggestion = "null", !.suggestionFailed = FALSE,
                          !.charts = NoCharts, !.message = NoMessage]]
  ELSE LET p == startPipeline(file, ack, defaultCode, r.targetUids[i])
       IN  [file |-> p.file, acked |-> p.acked,
            run |-> [r EXCEPT !.pc = "fetch", !.idx = i, !.locationCode = p.locationCode,
                              !.weatherData = NoForecast, !.tomorrow = "",
                              !.suggestion = "null",
                              !.suggestionFailed = FALSE, !.charts = NoCharts,
                              !.message = NoMessage]]

\* the catch of the loop body: the uid's pipeline ends at the step that threw
\* (weatherData: the forecast getTomorrowWeather rejected, for that step)
PipelineFails(step, weatherData) ==
  LET r == [run EXCEPT !.failed = Append(@, [uid |-> run.targetUids[run.idx], step |-> step,
                                             weatherData |-> weatherData])]
      a == StartPipeline(r, run.idx + 1, prefFile, acked)
  IN  /\ run' = a.run
      /\ prefFile' = a.file
      /\ acked' = a.acked

\* getWeatherAndPush(targetUids) is called
RunStart(targetUids) ==
  /\ run.pc \in {"idle", "done"}
  /\ LET a == StartPipeline([IdleRun EXCEPT !.targetUids = targetUids], 1, prefFile, acked)
     IN  /\ run' = a.run
         /\ prefFile' = a.file
         /\ acked' = a.acked
  /\ UNCHANGED <<jwt, defaultCode, clock, ticks, lastCall, reply>>

\* the forecast request throws
RunFetchThrows ==
  /\ run.pc = "fetch"
  /\ PipelineFails("fetch", NoForecast)
  /\ UNCHANGED <<jwt, defaultCode, clock, ticks, lastCall, reply>>

\* the forecast request resolves; getTomorrowWeather; the suggestion request is sent
RunFetchReturn(weatherData) ==
  /\ run.pc = "fetch"
  /\ IF getTomorrowWeather(weatherData).threw
     THEN PipelineFails("extract", weatherData)
     ELSE /\ run' = [run EXCEPT !.pc = "suggest", !.weatherData = weatherData,
                                !.tomorrow = getTomorrowWeather(weatherData).value]
          /\ UNCHANGED <<prefFile, acked>>
  /\ UNCHANGED <<jwt, defaultCode, clock, ticks, lastCall, reply>>

\* RunSuggestReturn with a failed suggestion request ending the uid's pipeline
RunSuggestReturn_abortOnFailure(response) ==
  /\ run.pc = "suggest"
  /\ IF response \in {"noChoices", "exception"}
     THEN PipelineFails("suggest", NoForecast)
     ELSE /\ run' = [run EXCEPT
                       !.pc = "format",
                       !.suggestion = getClothingSuggestion(response),
                       !.charts = IF Len(run.weatherData.daily) >= 3
                                  THEN [c \in DOMAIN NoCharts |-> "pending"]
                                  ELSE NoCharts]
          /\ UNCHANGED <<prefFile, acked>>
  /\ UNCHANGED <<jwt, defaultCode, clock, ticks, lastCall, reply>>

\* the suggestion request settles; formatWeatherData is called and, for a forecast
\* of 3 days or more, sends the three chart requests
RunSuggestReturn(response) ==
  /\ run.pc = "suggest"
  /\ run' = [run EXCEPT
               !.pc = "format",
               !.suggestion = getClothingSuggestion(response),
               !.suggestionFailed = response \in {"noChoices", "exception"},
               !.charts = IF Len(run.weatherData.daily) >= 3
                          THEN [c \in DOMAIN NoCharts |-> "pending"]
                          ELSE NoCharts]
  /\ UNCHANGED <<jwt, prefFile, defaultCode, clock, ticks, acked, lastCall, reply>>

\* one chart request settles: the chart's path, or null when it failed
RunChartReturn(chart, outcome) ==
  /\ run.pc = "format"
  /\ run.charts[chart] = "pending"
  /\ run' = [run EXCEPT !.charts[chart] = outcome]
  /\ UNCHANGED <<jwt, prefFile, defaultCode, clock, ticks, acked, lastCall, reply>>

\* formatWeatherData throws
RunFormatThrows ==
  /\ run.pc = "format"
  /\ PipelineFails("format", NoForecast)
  /\ UNCHANGED <<jwt, defaultCode, clock, ticks, lastCall, reply>>

\* RunFormatReturn pushing to the whole target list
RunFormatReturn_toAll(hasToken) ==
  /\ run.pc = "format"
  /\ \A c \in DOMAIN run.charts : run.charts[c] # "pending"
  /\ run' = [run EXCEPT !.pc = "push",
                        !.message = formatWeatherData(run.weatherData, run.suggestion,
                                                      run.charts),
                        !.pushes = Append(@, [uids |-> run.targetUids, idx |-> run.idx])]
  /\ UNCHANGED <<jwt, prefFile, defaultCode, clock, ticks, acked, lastCall, reply>>

\* Promise.all of the chart requests has resolved, formatWeatherData returns the
\* page, and pushMessageToUsers(page, [uid], true, summary) is called: it sends the
\* request, or throws at once when no app token is configured
RunFormatReturn(hasToken) ==
  /\ run.pc = "format"
  /\ \A c \in DOMAIN run.charts : run.charts[c] # "pending"
  /\ LET message == formatWeatherData(run.weatherData, run.suggestion, run.charts)
         r       == [run EXCEPT !.message = message]
     IN  IF hasToken
         THEN /\ run' = [r EXCEPT !.pc = "push",
                                  !.pushes = Append(@, [uids |-> << run.targetUids[run.idx] >>,
                                                        idx  |-> run.idx])]
              /\ UNCHANGED <<prefFile, acked>>
         ELSE LET f == [r EXCEPT !.failed = Append(@, [uid |-> run.targetUids[run.idx],
                                                       step |-> "push",
                                                       weatherData |-> NoForecast])]
                  a == StartPipeline(f, run.idx + 1, prefFile, acked)
              IN  /\ run' = a.run
                  /\ prefFile' = a.file
                  /\ acked' = a.acked
  /\ UNCHANGED <<jwt, defaultCode, clock, ticks, lastCall, reply>>

\* the push request settles: accepted, or rejected / failed
RunPushReturn(outcome) ==
  /\ run.pc = "push"
  /\ IF outcome = "ok"
     THEN LET a == StartPipeline(run, run.idx + 1, prefFile, acked)
          IN  /\ run' = a.run
              /\ prefFile' = a.file
              /\ acked' = a.acked
     ELSE PipelineFails("push", NoForecast)
  /\ UNCHANGED <<jwt, defaultCode, clock, ticks, lastCall, reply>>

\* commands handled between the steps of the run
PipeCommand ==
  \E uid \in Uids :
    \/ handleSetLocation(uid, <<"bei","jing","shi">>, <<"chao","yang","qu">>)
    \/ handleSetPushTime(uid, <<"0","8",":","3","0">>)

PipeNext ==
  \/ \E targetUids \in EligibleLists : RunStart(targetUids)
  \/ RunFetchThrows
  \/ \E weatherData \in Forecasts : RunFetchReturn(weatherData)
  \/ \E response \in SuggestionResponses : RunSuggestReturn(response)
  \/ \E chart \in DOMAIN NoCharts, outcome \in {"url", "null"} : RunChartReturn(chart, outcome)
  \/ RunFormatThrows
  \/ \E hasToken \in BOOLEAN : RunFormatReturn(hasToken)
  \/ \E outcome \in {"ok", "fail"} : RunPushReturn(outcome)
  \/ PipeCommand

PipeInit == Init /\ clock = 1

PipeSpec == PipeInit /\ [][PipeNext]_vars

(***************************************************************************)
(* The command handlers followed with their reply: one inbound message per *)
(* step; reply records the message, the users before it and the reply card *)
(***************************************************************************)
\* city and district texts of a "set location" message: directory names as they
\* are, with a suffix added, and names the directory does not have
CmdCityInputs ==
  { <<"bei","jing">>, <<"bei","jing","shi">>, <<"nan","jing">>, <<"jin","zhong">>,
    <<"shang","hai">> }

CmdDistrictInputs ==
  { <<"chao","yang">>, <<"chao","yang","qu">>, <<"jiang","ning">>, <<"qi","xian">>,
    <<"pu","dong">> }

\* formatCommandResponse(title, content, icon, type): the card, by title and type
formatCommandResponse(title, type) == [title |-> title, type |-> type]

\* handleSetLocation(message, uid) for a message the pattern matches
CommandSetLocation(uid, cityText, districtText) ==
  LET city     == stripSuffix(cityText, "shi")
      district == stripSuffix(stripSuffix(districtText, "qu"), "xian")
      found    == isLocationValid(city, district)
      r        == IF found
                  THEN setUserLocationPreference(prefFile, acked, uid,
                                                 getLocationCode(city, district))
                  ELSE [file |-> prefFile, acked |-> acked]
      card     == IF found
                  THEN formatCommandResponse("locationSet", "success")
                  ELSE formatCommandResponse("locationNotFound", "warning")
  IN  /\ prefFile' = r.file
      /\ acked' = r.acked
      /\ reply' = [NoReply EXCEPT !.command = "setLocation", !.uid = uid, !.city = cityText,
                                   !.district = districtText, !.title = card.title,
                                   !.type = card.type, !.before = prefFile.users]
      /\ UNCHANGED <<jwt, defaultCode, clock, ticks, lastCall, run>>

\* handleSetLocation(message, uid) for a message the pattern does not match
\* (no district after the city)
CommandSetLocationMalformed(uid, cityText) ==
  LET card == formatCommandResponse("formatError", "warning")
  IN  /\ reply' = [NoReply EXCEPT !.command = "setLocation", !.uid = uid, !.city = cityText,
                                   !.title = card.title, !.type = card.type,
                                   !.before = prefFile.users]
      /\ UNCHANGED <<jwt, prefFile, acked, defaultCode, clock, ticks, lastCall, run>>

CmdNext ==
  \/ \E uid \in Uids, c \in CmdCityInputs, d \in CmdDistrictInputs :
       CommandSetLocation(uid, c, d)
  \/ \E uid \in Uids, c \in CmdCityInputs : CommandSetLocationMalformed(uid, c)

CmdSpec == Init /\ [][CmdNext]_vars

(***************************************************************************)
(* messageHandler.handleMessage and the inbound callback.  A message is a  *)
(* sequence of characters; a command word stands for its characters as one *)
(* element ("sheZhiDiQu" set location, "diQuLieBiao" location list,        *)
(* "chaKanChengShi" view cities, "xiangQing" details, "dangQianDiQu"       *)
(* current location, "sheZhiTuiSongShiJian" set push time,                 *)
(* "chaKanTuiSongShiJian" view push time, "bangZhu" help, "tuiSongCeShi"   *)
(* push test, "chaXun" query, "niHao" hello); "colon" is the full-width    *)
(* colon, ":" the ASCII one, " " a blank.                                  *)
(***************************************************************************)
\* message.startsWith(prefix)
startsWith(message, prefix) ==
  Len(message) >= Len(prefix) /\ SubSeq(message, 1, Len(prefix)) = prefix

\* s.includes(t)
includes(s, t) ==
  \E i \in 1..(Len(s) + 1) : i + Len(t) - 1 <= Len(s) /\ SubSeq(s, i, i + Len(t) - 1) = t

\* s.trim()
RECURSIVE trim(_)
trim(s) ==
  IF s # <<>> /\ s[1] = " " THEN trim(Tail(s))
  ELSE IF s # <<>> /\ s[Len(s)] = " " THEN trim(SubSeq(s, 1, Len(s) - 1))
  ELSE s

\* s with its leading blanks removed: what \s* leaves for the capture
RECURSIVE skipBlanks(_)
skipBlanks(s) == IF s # <<>> /\ s[1] = " " THEN skipBlanks(Tail(s)) ELSE s

\* the capture of /^<word>[colon or :]\s*(.+)$/, or <<>> when the message does not
\* match (a capture of blanks only keeps one: \s* gives it back)
afterColon(message, word) ==
  IF startsWith(message, word) /\ Len(message) > Len(word) + 1
     /\ message[Len(word) + 1] \in {"colon", ":"}
  THEN LET rest == SubSeq(message, Len(word) + 2, Len(message))
       IN  IF skipBlanks(rest) = <<>> THEN << " " >> ELSE skipBlanks(rest)
  ELSE <<>>

\* /^<set location>[colon or :]\s*(.+?)\s+(.+)$/: the shortest city before a run of
\* blanks that still leaves a district
setLocationMatch(message) ==
  LET rest   == afterColon(message, <<"sheZhiDiQu">>)
      breaks == {i \in 2..(Len(rest) - 1) : rest[i] = " "}
  IN  IF breaks = {}
      THEN [matched |-> FALSE, city |-> <<>>, district |-> <<>>]
      ELSE LET i == CHOOSE j \in breaks : \A k \in breaks : j <= k
               d == skipBlanks(SubSeq(rest, i, Len(rest)))
           IN  [matched |-> TRUE, city |-> SubSeq(rest, 1, i - 1),
                district |-> IF d = <<>> THEN << " " >> ELSE d]

\* what a call of a withErrorHandling wrapper evaluates to: a promise, whatever the
\* wrapped function returned or threw
Promise(ret) == [kind |-> "promise", ret |-> ret]

\* if (value): a promise is an object, and every object is truthy
truthy(value) == value.kind = "promise" \/ (value.kind = "boolean" /\ value.ret)

\* a promise has no property "name"
nameOf(value) == IF value.kind = "promise" THEN <<"undefined">> ELSE value.ret.location.name

\* handleSetLocation(message, uid)
setLocationCommand(file, ack, uid, message) ==
  LET m        == setLocationMatch(message)
      city     == stripSuffix(m.city, "shi")
      district == stripSuffix(stripSuffix(m.district, "qu"), "xian")
  IN  IF ~m.matched
      THEN [file |-> file, acked |-> ack, shown |-> <<>>,
            card |-> formatCommandResponse("formatError", "warning")]
      ELSE IF ~isLocationValid(city, district)
      THEN [file |-> file, acked |-> ack, shown |-> city \o district,
            card |-> formatCommandResponse("locationNotFound", "warning")]
      ELSE LET r       == setUserLocationPreference(file, ack, uid,
                                                    getLocationCode(city, district))
               success == Promise(r.ret)
           IN  [file |-> r.file, acked |-> r.acked, shown |-> city \o district,
                card |-> IF truthy(success)
                         THEN formatCommandResponse("locationSet", "success")
                         ELSE formatCommandResponse("setFailed", "error")]

\* handleSetPushTime(message, uid)
setPushTimeCommand(file, ack, uid, message) ==
  LET time == afterColon(message, <<"sheZhiTuiSongShiJian">>)
  IN  IF ~pushTimeArgMatch(time)
      THEN [file |-> file, acked |-> ack, shown |-> <<>>,
            card |-> formatCommandResponse("formatError", "warning")]
      ELSE LET r       == updatePushTime(file, ack, uid, time)
               success == Promise(r.ret)
           IN  [file |-> r.file, acked |-> r.acked, shown |-> time,
                card |-> IF truthy(success)
                         THEN formatCommandResponse("pushTimeSet", "success")
                         ELSE formatCommandResponse("setFailed", "error")]

\* handleGetCurrentLocation(uid)
getCurrentLocationCommand(file, ack, configCode, uid) ==
  LET r        == getUserLocationPreference(file, ack, configCode, uid)
      location == Promise(r.ret)
  IN  [file |-> r.file, acked |-> r.acked, shown |-> nameOf(location),
       card |-> formatCommandResponse("currentLocation", "info")]

\* handleGetPushTime(uid): the file is read directly
getPushTimeCommand(file, ack, uid) ==
  [file |-> file, acked |-> ack,
   shown |-> IF file.exists /\ file.users[uid].present /\ file.users[uid].pushTime # <<>>
             THEN file.users[uid].pushTime
             ELSE <<"2","0",":","0","0">>,
   card |-> formatCommandResponse("pushTimeInfo", "info")]

\* Object.keys(getAllLocations()), in key order
RECURSIVE citiesFrom(_)
citiesFrom(i) ==
  IF i > Len(Directory) THEN <<>>
  ELSE LET rest == citiesFrom(i + 1)
       IN  IF \E k \in 1..Len(rest) : rest[k] = Directory[i].city
           THEN rest ELSE << Directory[i].city >> \o rest

getAllCities == citiesFrom(1)

\* handleCityDetail(cityName)
cityDetailCommand(file, ack, cityName) ==
  [file |-> file, acked |-> ack, shown |-> cityName,
   card |-> IF \E k \in 1..Len(getAllCities) :
                 getAllCities[k] = cityName \/ includes(getAllCities[k], cityName)
            THEN formatCommandResponse("cityDistricts", "info")
            ELSE formatCommandResponse("cityNotFound", "warning")]

\* the provinces table of handleProvinceDetail: some of its keys, with the city
\* names each one filters by (exact: c === name, otherwise c.includes(name))
provinces ==
  << [name |-> <<"bei","jing">>, exact |-> TRUE,  cities |-> {<<"bei","jing">>}],
     [name |-> <<"shan","xi">>,  exact |-> FALSE, cities |-> {<<"tai","yuan">>, <<"jin","zhong">>}],
     [name |-> <<"jiang","su">>, exact |-> FALSE, cities |-> {<<"nan","jing">>, <<"su","zhou">>}],
     [name |-> <<"tai","wan">>,  exact |-> FALSE, cities |-> {<<"tai","wan">>}] >>

\* names every object literal inherits from Object.prototype; as a message each is
\* one element
inheritedProperties == { <<"toString">>, <<"valueOf">>, <<"constructor">> }

\* provinces[provinceName](allCities).length and whether the value has .map:
\*   an own key filters the list; toString gives the text "[object Object]" and
\*   valueOf the table itself, neither with a map method; constructor gives the list
provinceCities(provinceName) ==
  IF \E k \in 1..Len(provinces) : provinces[k].name = provinceName
  THEN LET p == provinces[CHOOSE k \in 1..Len(provinces) : provinces[k].name = provinceName]
       IN  [isArray |-> TRUE,
            value |-> SelectSeq(getAllCities,
                                LAMBDA c : IF p.exact THEN c = p.name
                                           ELSE \E n \in p.cities : includes(c, n))]
  ELSE IF provinceName = <<"constructor">>
  THEN [isArray |-> TRUE, value |-> getAllCities]
  ELSE [isArray |-> FALSE, value |-> <<>>]

\* handleProvinceDetail(provinceName)
provinceDetailCommand(file, ack, provinceName) ==
  LET own       == \E k \in 1..Len(provinces) : provinces[k].name = provinceName
      inherited == provinceName \in inheritedProperties
      fuzzy     == {k \in 1..Len(provinces) :
                      includes(provinces[k].name, provinceName)
                      \/ includes(provinceName, provinces[k].name)}
      name      == IF own \/ inherited THEN provinceName
                   ELSE IF fuzzy # {}
                   THEN provinces[CHOOSE k \in fuzzy : \A j \in fuzzy : k <= j].name
                   ELSE <<>>
      found     == provinceCities(name)
  IN  IF name = <<>>
      THEN [file |-> file, acked |-> ack, shown |-> provinceName, threw |-> FALSE,
            card |-> formatCommandResponse("provinceNotFound", "warning")]
      ELSE IF found.isArray /\ found.value = <<>>
      THEN [file |-> file, acked |-> ack, shown |-> name, threw |-> FALSE,
            card |-> formatCommandResponse("dataNotFound", "warning")]
      ELSE IF ~found.isArray
      THEN [file |-> file, acked |-> ack, shown |-> name, threw |-> TRUE,
            card |-> formatCommandResponse("", "")]
      ELSE [file |-> file, acked |-> ack, shown |-> name, threw |-> FALSE,
            card |-> formatCommandResponse("provinceCities", "info")]

\* a handler's result as handleMessage returns it: {content, isHtml}
Handled(r) ==
  [file |-> r.file, acked |-> r.acked, threw |-> FALSE, shown |-> r.shown,
   card |-> r.card, isHtml |-> TRUE]

\* handleMessage(message, uid)
handleMessage(file, ack, configCode, uid, message) ==
  IF startsWith(message, <<"sheZhiDiQu">>)
  THEN Handled(setLocationCommand(file, ack, uid, message))
  ELSE IF message = <<"diQuLieBiao">>
  THEN Handled([file |-> file, acked |-> ack, shown |-> <<>>,
                card |-> formatCommandResponse("locationList", "info")])
  ELSE IF startsWith(message, <<"chaKanChengShi", "xiangQing">>)
  THEN LET arg == afterColon(message, <<"chaKanChengShi", "xiangQing">>)
       IN  IF arg # <<>>
           THEN Handled(cityDetailCommand(file, ack, trim(arg)))
           ELSE Handled([file |-> file, acked |-> ack, shown |-> <<>>,
                         card |-> formatCommandResponse("formatError", "warning")])
  ELSE IF startsWith(message, <<"chaKanChengShi">>)
  THEN LET arg == afterColon(message, <<"chaKanChengShi">>)
       IN  IF arg # <<>>
           THEN LET r == provinceDetailCommand(file, ack, trim(arg))
                IN  [Handled(r) EXCEPT !.threw = r.threw,
                                       !.isHtml = ~r.threw]
           ELSE Handled([file |-> file, acked |-> ack, shown |-> <<>>,
                         card |-> formatCommandResponse("formatError", "warning")])
  ELSE IF message = <<"dangQianDiQu">>
  THEN Handled(getCurrentLocationCommand(file, ack, configCode, uid))
  ELSE IF startsWith(message, <<"sheZhiTuiSongShiJian">>)
  THEN Handled(setPushTimeCommand(file, ack, uid, message))
  ELSE IF message = <<"chaKanTuiSongShiJian">>
  THEN Handled(getPushTimeCommand(file, ack, uid))
  ELSE IF message = <<"bangZhu">>
  THEN Handled([file |-> file, acked |-> ack, shown |-> <<>>,
                card |-> formatCommandResponse("help", "info")])
  ELSE Handled([file |-> file, acked |-> ack, shown |-> <<>>,
                card |-> formatCommandResponse("unrecognizedCommand", "warning")])

\* messages sent to the service
Messages ==
  { <<"sheZhiDiQu","colon","bei","jing","shi"," ","chao","yang","qu">>,
    <<"sheZhiDiQu","colon","jin","zhong"," ","qi","xian">>,
    <<"sheZhiDiQu","colon","bei","jing">>,
    <<"diQuLieBiao">>,
    <<"chaKanChengShi","xiangQing","colon","nan","jing">>,
    <<"chaKanChengShi","xiangQing","colon","shang","hai">>,
    <<"chaKanChengShi","xiangQing">>,
    <<"chaKanChengShi","colon","jiang","su">>,
    <<"chaKanChengShi","colon","jiang","su","sheng">>,
    <<"chaKanChengShi","colon","tai","wan">>,
    <<"chaKanChengShi","colon","huo","xing">>,
    <<"chaKanChengShi","colon","toString">>,
    <<"chaKanChengShi","colon","constructor">>,
    <<"chaKanChengShi">>,
    <<"dangQianDiQu">>,
    <<"sheZhiTuiSongShiJian","colon","0","8",":","3","0">>,
    <<"sheZhiTuiSongShiJian",":","8",":","3","1">>,
    <<"sheZhiTuiSongShiJian","colon","2","5",":","0","0">>,
    <<"sheZhiTuiSongShiJian","colon","9",":","7","5">>,
    <<"sheZhiTuiSongShiJian","colon","a","b">>,
    <<"chaKanTuiSongShiJian">>,
    <<"bangZhu">>,
    <<"bangZhu"," ">>,
    <<"tuiSongCeShi">>,
    <<"niHao">>,
    <<"ni","hao","ma">> }

\* the uid the messages come from (the other uid only has a record)
Senders == {"u1"}

\* messageHandler.handleMessage(message, uid) called on its own
HandleMessage(uid, message) ==
  LET returned(r) ==
        /\ prefFile' = r.file
        /\ acked' = r.acked
        /\ reply' = [NoReply EXCEPT !.command = "message", !.uid = uid,
                                     !.message = message,
                                     !.threw = r.threw, !.isHtml = r.isHtml,
                                     !.title = r.card.title, !.type = r.card.type,
                                     !.shown = r.shown, !.before = prefFile.users]
        /\ UNCHANGED <<jwt, defaultCode, clock, ticks, lastCall, run>>
  IN  returned(handleMessage(prefFile, acked, defaultCode, uid, message))

\* the title handleUserMessage gives the push of the reply
replyTitle(message) ==
  IF message = <<"bangZhu">> THEN "help"
  ELSE IF startsWith(message, <<"chaKanChengShi", "xiangQing">>) THEN "cityDistricts"
  ELSE IF startsWith(message, <<"chaKanChengShi">>) THEN "provinceCities"
  ELSE IF message = <<"diQuLieBiao">> THEN "locationList"
  ELSE IF startsWith(message, <<"sheZhiDiQu">>) THEN "locationSetResult"
  ELSE IF message = <<"dangQianDiQu">> THEN "currentLocation"
  ELSE IF message = <<"chaKanTuiSongShiJian">> THEN "pushTimeInfo"
  ELSE IF startsWith(message, <<"sheZhiTuiSongShiJian">>) THEN "pushTimeSetResult"
  ELSE "messageReply"

\* the else branch of handleUserMessage, taken when handleMessage returns nothing:
\* the old handling of push test, greetings, weather queries and help hints
\* (the old set-location handling is left out: handleMessage takes every
\* set-location message)
legacyHandling(uid, message, outcome) ==
  IF message \in {<<"tuiSongCeShi">>, <<"chaXun">>} \/ includes(message, <<"tianQi">>)
  THEN [handled |-> TRUE, pushes |-> <<>>, runs |-> << <<uid>> >>]
  ELSE IF message = <<"niHao">>
  THEN [handled |-> outcome = "ok", runs |-> <<>>,
        pushes |-> << [uids |-> <<uid>>, title |-> "greeting", outcome |-> outcome] >>]
  ELSE [handled |-> FALSE, pushes |-> <<>>, runs |-> <<>>]

\* handleUserMessage(uid, message); outcome: how the push of the reply ends
handleUserMessage(file, ack, configCode, uid, content, outcome) ==
  IF content.kind # "string"
  THEN \* message.trim is not a function: caught, false
       [file |-> file, acked |-> ack, handled |-> FALSE, threw |-> TRUE,
        card |-> formatCommandResponse("", ""), shown |-> <<>>,
        pushes |-> <<>>, runs |-> <<>>]
  ELSE LET message == trim(content.text)
           \* the statements after response = messageHandler.handleMessage(...)
           after(response) ==
             IF response.threw
             THEN [file |-> response.file, acked |-> response.acked, handled |-> FALSE,
                   threw |-> TRUE, card |-> response.card, shown |-> response.shown,
                   pushes |-> <<>>, runs |-> <<>>]
             ELSE IF truthy([kind |-> "promise", ret |-> response])
             THEN [file |-> response.file, acked |-> response.acked,
                   handled |-> outcome = "ok", threw |-> FALSE,
                   card |-> response.card, shown |-> response.shown,
                   pushes |-> << [uids |-> <<uid>>, title |-> replyTitle(message),
                                  outcome |-> outcome] >>,
                   runs |-> <<>>]
             ELSE LET l == legacyHandling(uid, message, outcome)
                  IN  [file |-> response.file, acked |-> response.acked,
                       handled |-> l.handled, threw |-> FALSE,
                       card |-> response.card, shown |-> response.shown,
                       pushes |-> l.pushes, runs |-> l.runs]
       IN  after(handleMessage(file, ack, configCode, uid, message))

\* request bodies of POST /api/wx-callback
Contents ==
  {[kind |-> "string", text |-> m] : m \in Messages}
  \cup {[kind |-> "missing", text |-> <<>>], [kind |-> "empty", text |-> <<>>],
        [kind |-> "number", text |-> <<>>]}

Bodies ==
  {[hasData |-> TRUE, uid |-> u, content |-> c] : u \in Senders \cup {""}, c \in Contents}
  \cup {[hasData |-> FALSE, uid |-> "", content |-> [kind |-> "missing", text |-> <<>>]]}

\* the route handler without the checks of the request body
Callback_acceptAll(body, replyOutcome, defaultOutcome) ==
  /\ reply' = [NoReply EXCEPT !.command = "callback", !.uid = body.uid,
                               !.message = body.content.text,
                               !.hasData = body.hasData,
                               !.contentKind = body.content.kind,
                               !.before = prefFile.users,
                               !.status = 200, !.success = TRUE]
  /\ UNCHANGED <<jwt, prefFile, acked, defaultCode, clock, ticks, lastCall, run>>

\* the route handler of POST /api/wx-callback, from the request to the response;
\* replyOutcome, defaultOutcome: how the push of the reply and the push of the
\* default answer end
Callback(body, replyOutcome, defaultOutcome) ==
  LET asked == [NoReply EXCEPT !.command = "callback", !.uid = body.uid,
                               !.message = body.content.text,
                               !.hasData = body.hasData,
                               !.contentKind = body.content.kind,
                               !.before = prefFile.users]
  IN  IF ~body.hasData \/ body.uid = "" \/ body.content.kind \in {"missing", "empty"}
      THEN /\ reply' = [asked EXCEPT !.status = 400, !.success = FALSE]
           /\ UNCHANGED <<jwt, prefFile, acked, defaultCode, clock, ticks, lastCall, run>>
      ELSE LET \* the statements after handled = await handleUserMessage(uid, content)
               respond(h) ==
                 LET pushes  == IF h.handled THEN h.pushes
                                ELSE Append(h.pushes, [uids |-> <<body.uid>>,
                                                       title |-> "unrecognized",
                                                       outcome |-> defaultOutcome])
                     escaped == ~h.handled /\ defaultOutcome = "fail"
                 IN  /\ prefFile' = h.file
                     /\ acked' = h.acked
                     /\ reply' = [asked EXCEPT !.status = IF escaped THEN 500 ELSE 200,
                                               !.success = ~escaped,
                                               !.threw = h.threw,
                                               !.title = h.card.title,
                                               !.type = h.card.type,
                                               !.shown = h.shown,
                                               !.pushes = pushes, !.runs = h.runs]
                     /\ UNCHANGED <<jwt, defaultCode, clock, ticks, lastCall, run>>
           IN  respond(handleUserMessage(prefFile, acked, defaultCode, body.uid,
                                         body.content, replyOutcome))

MsgNext ==
  \/ \E uid \in Senders, message \in Messages : HandleMessage(uid, message)
  \/ \E body \in Bodies, replyOutcome \in {"ok", "fail"}, defaultOutcome \in {"ok", "fail"} :
       Callback(body, replyOutcome, defaultOutcome)

MsgInit == Init /\ clock = 1 /\ defaultCode = "101010900"

MsgSpec == MsgInit /\ [][MsgNext]_vars

(***************************************************************************)
(* The token module: generateWeatherJWT and getJWTToken with its cache.    *)
(* Times are in seconds.                                                   *)
(***************************************************************************)
\* the instants the clock of the token module visits, in order: the start, inside
\* the cache's life, 5 minutes before its end to the second, inside the last 5
\* minutes, after its end, the signed expiry of a token made at the start, later
TokenTimes == <<0, 1500, 2700, 2760, 3300, 3570, 4200>>

\* now > tokenExpiry - 300000 (ms)
earlyInvalidation == 300

\* tokenExpiry = now + 50 * 60 * 1000 (ms)
cacheLifetime == 3000

\* iat = Math.floor(Date.now() / 1000) - 30
issueSkew == 30

\* exp = iat + 3600
tokenLifetime == 3600

\* the condition of getJWTToken without the early invalidation
mustGenerate_atExpiry(cachedToken, tokenExpiry, now) ==
  ~cachedToken.present \/ now > tokenExpiry

\* the condition of getJWTToken for generating
mustGenerate(cachedToken, tokenExpiry, now) ==
  ~cachedToken.present \/ now > tokenExpiry - earlyInvalidation

\* the claims generateWeatherJWT signs when it reads the clock at now
signedToken(now) ==
  [present |-> TRUE, iat |-> now - issueSkew, exp |-> now - issueSkew + tokenLifetime]

\* the cache after a generation that overwrites it with an empty token
cacheAfterFailure_cleared(cachedToken, tokenExpiry) ==
  [cachedToken |-> NoToken, tokenExpiry |-> 0]

\* the cache after a failed generation: the catch of getJWTToken only rethrows
cacheAfterFailure(cachedToken, tokenExpiry) ==
  [cachedToken |-> cachedToken, tokenExpiry |-> tokenExpiry]

TokenTimePasses ==
  /\ jwt.tick < Len(TokenTimes)
  /\ jwt' = [jwt EXCEPT !.tick = @ + 1, !.now = TokenTimes[jwt.tick + 1]]
  /\ UNCHANGED <<prefFile, defaultCode, clock, ticks, acked, lastCall, run, reply>>

\* getJWTToken() is called: it reads the clock and either returns the cached token
\* or calls generateWeatherJWT, which awaits the import of the key
GetJWTToken(c) ==
  /\ jwt.calls[c].pc \in {"idle", "returned", "threw"}
  /\ jwt' = [jwt EXCEPT !.calls[c] =
               IF mustGenerate(jwt.cachedToken, jwt.tokenExpiry, jwt.now)
               THEN [IdleCall EXCEPT !.pc = "importing", !.now = jwt.now,
                                     !.generated = TRUE]
               ELSE [IdleCall EXCEPT !.pc = "returned", !.now = jwt.now,
                                     !.token = jwt.cachedToken]]
  /\ UNCHANGED <<prefFile, defaultCode, clock, ticks, acked, lastCall, run, reply>>

\* generateWeatherJWT throws (key file, credentials, import or signature): the
\* error is rethrown by getJWTToken
GenerateThrows(c) ==
  /\ jwt.calls[c].pc \in {"importing", "signing"}
  /\ LET cache == cacheAfterFailure(jwt.cachedToken, jwt.tokenExpiry)
     IN  jwt' = [jwt EXCEPT !.calls[c].pc = "threw",
                            !.cachedToken = cache.cachedToken,
                            !.tokenExpiry = cache.tokenExpiry]
  /\ UNCHANGED <<prefFile, defaultCode, clock, ticks, acked, lastCall, run, reply>>

\* the key is imported: generateWeatherJWT reads the clock for iat and awaits the
\* signature
ImportReturn(c) ==
  /\ jwt.calls[c].pc = "importing"
  /\ jwt' = [jwt EXCEPT !.calls[c].pc = "signing", !.calls[c].iat = signedToken(jwt.now).iat]
  /\ UNCHANGED <<prefFile, defaultCode, clock, ticks, acked, lastCall, run, reply>>

\* the signature is done: getJWTToken caches the token, sets tokenExpiry from the
\* clock it read when called, and returns cachedToken
SignReturn(c) ==
  /\ jwt.calls[c].pc = "signing"
  /\ LET token == signedToken(jwt.calls[c].iat + issueSkew)
     IN  jwt' = [jwt EXCEPT !.cachedToken = token,
                            !.tokenExpiry = jwt.calls[c].now + cacheLifetime,
                            !.calls[c].pc = "returned",
                            !.calls[c].token = token]
  /\ UNCHANGED <<prefFile, defaultCode, clock, ticks, acked, lastCall, run, reply>>

TokenNext ==
  \/ TokenTimePasses
  \/ \E c \in CallIds : GetJWTToken(c)
  \/ \E c \in CallIds : GenerateThrows(c)
  \/ \E c \in CallIds : ImportReturn(c)
  \/ \E c \in CallIds : SignReturn(c)

TokenInit == Init /\ clock = 1 /\ defaultCode = "101190104" /\ prefFile.exists

TokenSpec == TokenInit /\ [][TokenNext]_vars

(***************************************************************************)
(* Properties                                                              *)
(***************************************************************************)
\* a stored "HH:mm" text read as numbers
HourOf(pushTime) == DigitValue(pushTime[1]) * 10 + DigitValue(pushTime[2])

MinuteOf(pushTime) == DigitValue(pushTime[4]) * 10 + DigitValue(pushTime[5])

\* the push time in force for uid: the stored one, else 20:00
ResolvedPushTime(file, uid) ==
  IF file.users[uid].present /\ file.users[uid].pushTime # <<>>
  THEN file.users[uid].pushTime
  ELSE <<"2","0",":","0","0">>

IsDue(file, uid, now) ==
  /\ HourOf(ResolvedPushTime(file, uid)) = now.hour
  /\ MinuteOf(ResolvedPushTime(file, uid)) = now.minute

Occurrences(seq, x) == Cardinality({i \in 1..Len(seq) : seq[i] = x})

InFlight == {"fetch", "suggest", "format", "push"}

\* C1: in one tick, the uids handed to the pipeline are exactly the eligible uids
\* whose resolved pushTime equals the hour and minute read by the tick, in the
\* order of the eligible list, and when the tick is done the pipeline has been
\* invoked exactly once for each of them and for no other uid.
C1_DueUsersInvokedOnce ==
  [][\A t \in TickIds :
       /\ (ticks[t].pc = "lookup" /\ ticks'[t].pc # "lookup")
            => ticks'[t].usersToPush =
                 SelectSeq(ticks'[t].userUids, LAMBDA u : IsDue(prefFile, u, Now))
       /\ ticks'[t].pc = "done"
            => \A u \in Uids :
                 Occurrences(ticks'[t].invoked, u) =
                   IF \E i \in 1..Len(ticks'[t].usersToPush) : ticks'[t].usersToPush[i] = u
                   THEN 1 ELSE 0]_vars

\* a tick at 08:30 over u1 (pushTime 08:30) and u2 (pushTime 08:31) has started
\* the pipeline of u1 only
C1_Witness ==
  \E t \in TickIds :
    /\ Now = [hour |-> 8, minute |-> 30]
    /\ ticks[t].pc = "fetch"
    /\ ticks[t].userUids = <<"u2", "u1">>
    /\ ticks[t].usersToPush = <<"u1">>
    /\ ticks[t].invoked = <<"u1">>
    /\ prefFile.users["u1"].pushTime = <<"0","8",":","3","0">>
    /\ prefFile.users["u2"].pushTime = <<"0","8",":","3","1">>

\* C2: once the pipeline of a matched uid has failed, the pipeline of the next
\* matched uid has been started; a finished tick has run the pipeline of every
\* matched uid after a failed one, and the job can fire again.
C2_FailureIsolated ==
  \A t \in TickIds :
    LET tk == ticks[t]
    IN  /\ \A i \in 1..Len(tk.usersToPush) :
             (\E k \in 1..Len(tk.failed) : tk.failed[k] = tk.usersToPush[i])
               => /\ tk.pc \in InFlight \cup {"done"}
                  /\ tk.pc \in InFlight => tk.idx > i
                  /\ \A j \in (i + 1)..Len(tk.usersToPush) :
                       (tk.pc = "done" \/ j <= tk.idx)
                         => \E k \in 1..Len(tk.invoked) : tk.invoked[k] = tk.usersToPush[j]
        /\ tk.pc = "done" => ENABLED TickFire(t)

\* u1 failed, u2 was run after it and did not fail, and the tick is done
C2_Witness ==
  \E t \in TickIds :
    /\ ticks[t].pc = "done"
    /\ ticks[t].usersToPush = <<"u1", "u2">>
    /\ ticks[t].failed = <<"u1">>
    /\ ticks[t].invoked = <<"u1", "u2">>

\* a text that is a 24-hour HH:mm time, read as numbers
MatchesHHmm(s) ==
  /\ Len(s) = 5
  /\ isDigit(s[1]) /\ isDigit(s[2]) /\ s[3] = ":" /\ isDigit(s[4]) /\ isDigit(s[5])
  /\ HourOf(s) \in 0..23
  /\ MinuteOf(s) \in 0..59

\* "H:mm" with minutes 00-59
SingleDigitHour(s) ==
  /\ Len(s) = 4
  /\ isDigit(s[1]) /\ s[2] = ":" /\ isDigit(s[3]) /\ isDigit(s[4])
  /\ DigitValue(s[3]) * 10 + DigitValue(s[4]) \in 0..59

Normalized(s) == IF SingleDigitHour(s) THEN <<"0">> \o s ELSE s

DirectoryCodes == {Directory[i].code : i \in 1..Len(Directory)}

HasLocation(users, uid) == users[uid].present /\ users[uid].location.set

HasPushTime(users, uid) == users[uid].present /\ users[uid].pushTime # <<>>

\* C3: updatePushTime(uid, t) normalizes "H:mm" to "0H:mm"; when the normalized text
\* is a 24-hour HH:mm time the call succeeds and the normalized text is uid's stored
\* pushTime; for every other t the call resolves to a ValidationError and the stored
\* user records are the ones before the call.
C3_UpdatePushTimeContract ==
  lastCall.op = "updatePushTime" =>
    IF MatchesHHmm(Normalized(lastCall.time))
    THEN /\ lastCall.ret.error = ""
         /\ prefFile.users[lastCall.uid].present
         /\ prefFile.users[lastCall.uid].pushTime = Normalized(lastCall.time)
    ELSE /\ lastCall.ret.error = "ValidationError"
         /\ prefFile.users = lastCall.before

C3_Witness ==
  /\ lastCall.op = "updatePushTime"
  /\ lastCall.uid = "u1"
  /\ lastCall.time = <<"8",":","3","0">>
  /\ lastCall.ret.error = ""
  /\ lastCall.before["u1"].pushTime = <<"2","0",":","0","0">>
  /\ prefFile.users["u1"].pushTime = <<"0","8",":","3","0">>

\* C4: in every reachable state, every pushTime stored for any uid is a 24-hour
\* HH:mm time (it matches ^([01]\d|2[0-3]):[0-5]\d$).
C4_StoredPushTimeMatches ==
  \A u \in Uids :
    HasPushTime(prefFile.users, u) => MatchesHHmm(prefFile.users[u].pushTime)

C4_Witness ==
  /\ prefFile.users["u1"].pushTime = <<"2","0",":","0","0">>
  /\ acked["u1"].location = "101190104"
  /\ prefFile.users["u2"].pushTime = <<"0","8",":","3","1">>
  /\ \E t \in TickIds : ticks[t].pc = "done" /\ ticks[t].userUids = <<"u1", "u2">>

\* C5: getUserLocationPreference(uid) called right after a successful
\* setUserLocationPreference(uid, code), code in the directory, returns a location
\* whose code is code.
C5_SetThenGetRoundTrip ==
  ( /\ lastCall.op = "getUserLocationPreference"
    /\ lastCall.prevOp = "setUserLocationPreference"
    /\ lastCall.prevUid = lastCall.uid
    /\ lastCall.prevCode \in DirectoryCodes )
  => /\ lastCall.ret.error = ""
     /\ lastCall.ret.location.set
     /\ lastCall.ret.location.code = lastCall.prevCode

C5_Witness ==
  /\ lastCall.op = "getUserLocationPreference"
  /\ lastCall.prevOp = "setUserLocationPreference"
  /\ lastCall.prevUid = lastCall.uid
  /\ lastCall.prevCode = "101190104"
  /\ defaultCode = "101010900"
  /\ lastCall.ret.location.code = "101190104"
  /\ lastCall.ret.location.city = <<"nan","jing">>

\* C6: setUserLocationPreference(uid, code) with a code outside the directory
\* resolves to a ValidationError and leaves every user record as it was; no record
\* is created for uid.
C6_UnknownCodeRejected ==
  (lastCall.op = "setUserLocationPreference" /\ lastCall.code \notin DirectoryCodes)
  => /\ lastCall.ret.error = "ValidationError"
     /\ prefFile.users = lastCall.before

C6_Witness ==
  /\ lastCall.op = "setUserLocationPreference"
  /\ lastCall.uid = "u1"
  /\ lastCall.code = "999999999"
  /\ lastCall.ret.error = "ValidationError"
  /\ ~prefFile.users["u1"].present
  /\ HasLocation(prefFile.users, "u2")

\* C7: a successful setUserLocationPreference(uid, code) leaves uid with a record,
\* keeps uid's stored pushTime and every other uid's record; a successful
\* updatePushTime(uid, t) keeps uid's stored location and every other uid's record.
C7_SetOperationsFrame ==
  /\ (lastCall.op = "setUserLocationPreference" /\ lastCall.ret.error = "")
     => /\ prefFile.users[lastCall.uid].present
        /\ prefFile.users[lastCall.uid].pushTime = lastCall.before[lastCall.uid].pushTime
        /\ \A v \in Uids \ {lastCall.uid} : prefFile.users[v] = lastCall.before[v]
  /\ (lastCall.op = "updatePushTime" /\ lastCall.ret.error = "")
     => /\ prefFile.users[lastCall.uid].present
        /\ prefFile.users[lastCall.uid].location = lastCall.before[lastCall.uid].location
        /\ \A v \in Uids \ {lastCall.uid} : prefFile.users[v] = lastCall.before[v]

C7_Witness ==
  /\ lastCall.op = "setUserLocationPreference"
  /\ lastCall.uid = "u1"
  /\ lastCall.ret.error = ""
  /\ lastCall.before["u1"].pushTime = <<"0","8",":","3","0">>
  /\ lastCall.before["u1"].location.code = "101190104"
  /\ prefFile.users["u1"].location.code = "101010900"
  /\ prefFile.users["u1"].pushTime = <<"0","8",":","3","0">>
  /\ HasPushTime(prefFile.users, "u2")

\* the configured default location
ConfiguredDefault ==
  Location(<<"nan","jing">>, <<"jiang","ning">>, defaultCode, <<"nan","jing","jiang","ning">>)

\* C8 (as amended): getUserLocationPreference never fails; for a uid with no record
\* or no stored location it returns the configured default location; getPushTime
\* never fails and for a uid with no record or no stored pushTime it returns "20:00".
C8_DefaultsForUnsetFields ==
  /\ lastCall.op = "getUserLocationPreference"
     => /\ lastCall.ret.error = ""
        /\ ~HasLocation(lastCall.before, lastCall.uid)
             => lastCall.ret.location = ConfiguredDefault
  /\ lastCall.op = "getPushTime"
     => /\ lastCall.ret.error = ""
        /\ ~HasPushTime(lastCall.before, lastCall.uid)
             => lastCall.ret.time = <<"2","0",":","0","0">>

C8_Witness ==
  /\ lastCall.op = "getUserLocationPreference"
  /\ lastCall.uid = "u1"
  /\ lastCall.before["u1"].present
  /\ ~lastCall.before["u1"].location.set
  /\ defaultCode = "101010900"
  /\ lastCall.ret.location.code = "101010900"
  /\ lastCall.ret.location.city = <<"nan","jing">>

\* C8 (as stated): for a uid with no record or no stored location,
\* getUserLocationPreference returns the configured default location and the push
\* time resolved for the uid is "20:00".
C8_DefaultsWithoutLocation ==
  /\ (lastCall.op = "getUserLocationPreference" /\ ~HasLocation(lastCall.before, lastCall.uid))
     => /\ lastCall.ret.error = ""
        /\ lastCall.ret.location = ConfiguredDefault
  /\ (lastCall.op = "getPushTime" /\ ~HasLocation(lastCall.before, lastCall.uid))
     => /\ lastCall.ret.error = ""
        /\ lastCall.ret.time = <<"2","0",":","0","0">>

\* a change some write made is no longer in the file although no later write
\* replaced that field
LostUpdate ==
  \E u \in Uids :
    \/ acked[u].location # "" /\ ~(HasLocation(prefFile.users, u)
                                    /\ prefFile.users[u].location.code = acked[u].location)
    \/ acked[u].pushTime # <<>> /\ prefFile.users[u].pushTime # acked[u].pushTime

\* C9 (as amended): no write to the preference file is lost.  Every write of the
\* job (default backfill) and of the command handlers is a synchronous
\* read-modify-write, so when both write around the same tick each field holds the
\* last value written to it.
C9_NoLostUpdate == ~LostUpdate

C9_Witness ==
  \E t \in TickIds :
    /\ ticks[t].raced = "both"
    /\ prefFile.users["u1"].location.code = "101010900"
    /\ acked["u1"].location = "101010900"
    /\ prefFile.users["u1"].pushTime = <<"2","0",":","0","0">>
    /\ prefFile.users["u2"].pushTime = <<"0","8",":","3","1">>
    /\ prefFile.users["u2"].location.code = "101190104"

\* C9 (as stated): the job's backfill and a command handler's write race so that
\* one change is lost.
C9_LostUpdateOccurs == <>LostUpdate

\* C10: a uid that has a record keeps it, a record that has a location keeps one,
\* and a record that has a pushTime keeps one, across every step.
C10_NothingRemoved ==
  [][\A u \in Uids :
       /\ prefFile.users[u].present => prefFile'.users[u].present
       /\ HasLocation(prefFile.users, u) => HasLocation(prefFile'.users, u)
       /\ HasPushTime(prefFile.users, u) => HasPushTime(prefFile'.users, u)]_vars

C10_Witness ==
  /\ HasLocation(prefFile.users, "u1")
  /\ prefFile.users["u1"].location.code = "101010900"
  /\ prefFile.users["u1"].pushTime = <<"0","8",":","3","0">>
  /\ HasLocation(prefFile.users, "u2")
  /\ HasPushTime(prefFile.users, "u2")
  /\ \E t \in TickIds : ticks[t].pc = "done" /\ ticks[t].invoked = <<"u1">>

\* the location the job writes for a uid without record
JobDefaultLocation ==
  Location(<<"nan","jing">>, <<"jiang","ning">>, "101190104", <<"nan","jing","jiang","ning">>)

C12_Sequential ==
  [][\A t \in TickIds :
       (ticks'[t].pc # "lookup" /\ ticks'[t].invoked # ticks[t].invoked)
       => /\ ticks'[t].invoked = Append(ticks[t].invoked, ticks'[t].usersToPush[ticks'[t].idx])
          /\ \/ ticks[t].pc = "lookup" /\ ticks'[t].idx = 1
             \/ ticks[t].pc \in InFlight /\ ticks'[t].idx = ticks[t].idx + 1
          /\ Len(ticks'[t].invoked) = ticks'[t].idx]_vars

C12_Witness ==
  \E t \in TickIds :
    /\ ticks[t].pc = "suggest"
    /\ ticks[t].usersToPush = <<"u2", "u1">>
    /\ ticks[t].idx = 2
    /\ ticks[t].invoked = <<"u2", "u1">>
    /\ ticks[t].failed = <<>>

\* C13: when the user-list request fails (exception, or a response whose code is not
\* the success code) the run ends there: no uid is listed or matched, no pipeline is
\* started, nothing is recorded as failed, the preference file is as it was, and the
\* job can fire again.
C13_LookupFailureNoOp ==
  [][\A t \in TickIds :
       (ticks[t].pc = "lookup" /\ ticks'[t].pc # "lookup" /\ ticks'[t].lookupFailed)
       => /\ ticks'[t].pc = "done"
          /\ ticks'[t].userUids = <<>>
          /\ ticks'[t].usersToPush = <<>>
          /\ ticks'[t].invoked = <<>>
          /\ ticks'[t].failed = <<>>
          /\ prefFile' = prefFile
          /\ acked' = acked]_vars

C13_Witness ==
  \E t \in TickIds :
    /\ ticks[t].pc = "done"
    /\ ticks[t].lookupFailed
    /\ ticks[t].invoked = <<>>
    /\ Now = [hour |-> 20, minute |-> 0]
    /\ ~HasPushTime(prefFile.users, "u1")
    /\ HasLocation(prefFile.users, "u1")

\* the uid whose pipeline the run is in
RunUid == run.targetUids[run.idx]

RunInFlight == run.pc \in {"fetch", "suggest", "format", "push"}

\* C14 (as stated): when the suggestion request failed, the suggestion handed to
\* formatWeatherData is null and the rendered page has no clothing section.
C14_FailedSuggestionIsNull ==
  (run.pc \in {"format", "push"} /\ run.suggestionFailed)
  => /\ run.suggestion = "null"
     /\ run.message.rendered => run.message.clothing = "none"

\* C15: the step in which the suggestion request settles, whatever it settles to,
\* leaves the uid's pipeline in flight at formatting with its forecast, and records
\* no failure; no pipeline ever fails at the suggestion step.
C15_SuggestionNeverBlocks ==
  [][/\ (run.pc = "suggest" /\ run'.pc # "suggest")
          => /\ run'.pc = "format"
             /\ run'.idx = run.idx
             /\ run'.weatherData = run.weatherData
             /\ run'.failed = run.failed
     /\ \A i \in 1..Len(run'.failed) :
          run'.failed[i].step \in {"fetch", "extract", "format", "push"}]_vars

C15_Witness ==
  /\ run.pc = "push"
  /\ run.suggestionFailed
  /\ run.suggestion = "cannotGetJudgeYourselfText"
  /\ run.targetUids = <<"u1">>
  /\ run.message.rendered
  /\ run.pushes = << [uids |-> <<"u1">>, idx |-> 1] >>

\* C16: once the page is final and pushed, no chart request is pending; for a
\* forecast of at least 3 days the page holds the chart of exactly the types whose
\* request succeeded, in the page's order; and the push of the page was sent.
C16_ChartsIndependent ==
  run.pc = "push"
  => /\ run.message.rendered
     /\ \A c \in DOMAIN run.charts : run.charts[c] # "pending"
     /\ Len(run.weatherData.daily) >= 3
          => /\ \A c \in DOMAIN run.charts :
                  (\E k \in 1..Len(run.message.charts) : run.message.charts[k] = c)
                    <=> run.charts[c] = "url"
             /\ Len(run.message.charts) = Cardinality({c \in DOMAIN run.charts : run.charts[c] = "url"})
     /\ Len(run.weatherData.daily) < 3 => run.message.charts = <<>>
     /\ run.pushes # <<>>
     /\ run.pushes[Len(run.pushes)].idx = run.idx

C16_Witness ==
  /\ run.pc = "push"
  /\ Len(run.weatherData.daily) = 3
  /\ run.charts = [temperature |-> "url", rainfall |-> "null", wind |-> "url"]
  /\ run.message.charts = <<"temperature", "wind">>
  /\ run.pushes # <<>>

\* C17: every push request of a run is addressed to the one uid whose pipeline sent
\* it; no pipeline sends two; a pipeline with a push in flight has a forecast with a
\* tomorrow entry; a uid whose pipeline failed at the forecast request or at the
\* tomorrow extraction has no push.
C17_PushAddressing ==
  /\ \A i \in 1..Len(run.pushes) :
       /\ run.pushes[i].idx \in 1..run.idx
       /\ run.pushes[i].uids = << run.targetUids[run.pushes[i].idx] >>
       /\ \A j \in 1..Len(run.pushes) : run.pushes[j].idx = run.pushes[i].idx => j = i
       /\ (run.pushes[i].idx = run.idx /\ run.pc # "done")
            => /\ run.pc = "push"
               /\ Len(run.weatherData.daily) >= 2
               /\ run.tomorrow = run.weatherData.daily[2]
  /\ \A k \in 1..Len(run.failed) :
       run.failed[k].step \in {"fetch", "extract"}
       => \A i \in 1..Len(run.pushes) :
            \A n \in 1..Len(run.pushes[i].uids) : run.pushes[i].uids[n] # run.failed[k].uid

C17_Witness ==
  /\ run.pc = "push"
  /\ run.targetUids = <<"u1", "u2">>
  /\ run.idx = 2
  /\ Len(run.failed) = 1
  /\ run.failed[1].uid = "u1"
  /\ run.failed[1].step = "fetch"
  /\ run.pushes = << [uids |-> <<"u2">>, idx |-> 2] >>

\* C18 (as stated): when a uid's pipeline starts, the forecast is requested for the
\* uid's stored location code, and for the configured default code when the uid has
\* no stored location or code.
C18_RequestUsesConfiguredDefault ==
  [][(run'.pc = "fetch" /\ (run.pc # "fetch" \/ run'.idx # run.idx \/ run.pc \in {"idle", "done"}))
     => LET uid == run'.targetUids[run'.idx]
        IN  run'.locationCode =
              IF HasLocation(prefFile'.users, uid)
                 /\ prefFile'.users[uid].location.code \notin {"", "undefined"}
              THEN prefFile'.users[uid].location.code
              ELSE defaultCode]_vars

\* C19: a pipeline past the extraction has a forecast with at least 2 daily entries
\* and its tomorrow entry is the second one (index 1); a pipeline that failed at the
\* extraction had a forecast that was missing, had no daily array, or had fewer
\* than 2 daily entries.
C19_TomorrowExtraction ==
  /\ run.pc \in {"suggest", "format", "push"}
       => /\ run.weatherData.present
          /\ run.weatherData.hasDaily
          /\ Len(run.weatherData.daily) >= 2
          /\ run.tomorrow = run.weatherData.daily[2]
  /\ \A k \in 1..Len(run.failed) :
       run.failed[k].step = "extract"
       => \/ ~run.failed[k].weatherData.present
          \/ ~run.failed[k].weatherData.hasDaily
          \/ Len(run.failed[k].weatherData.daily) < 2

C19_Witness ==
  /\ run.pc = "suggest"
  /\ run.idx = 2
  /\ run.weatherData.daily = <<"day0", "day1">>
  /\ run.tomorrow = "day1"
  /\ Len(run.failed) = 1
  /\ run.failed[1].step = "extract"
  /\ run.failed[1].weatherData.daily = <<"day0">>

\* C20 (as stated): after "set location: <city> <district>" for a pair the directory
\* has, the uid's stored code is the directory's code for the pair and the reply is
\* the success card; for a pair the directory has neither as typed nor with the
\* suffixes removed, the store is as before and the reply is a warning card.
C20_SetLocationByDirectory ==
  (reply.command = "setLocation" /\ reply.district # <<>>)
  => LET city     == stripSuffix(reply.city, "shi")
         district == stripSuffix(stripSuffix(reply.district, "qu"), "xian")
     IN  /\ isLocationValid(reply.city, reply.district)
              => /\ prefFile.users[reply.uid].location.code
                      = getLocationCode(reply.city, reply.district)
                 /\ reply.type = "success"
         /\ (~isLocationValid(reply.city, reply.district) /\ ~isLocationValid(city, district))
              => /\ prefFile.users = reply.before
                 /\ reply.type = "warning"

\* C21 (as stated): handleMessage returns {content, isHtml} for every message and
\* never throws; text matching no command pattern gets the "unrecognized command"
\* card tagged isHtml; a command with malformed arguments gets a card.
C21_HandleMessageNeverThrows ==
  reply.command = "message"
  => /\ ~reply.threw
     /\ reply.isHtml
     /\ reply.title # ""
     /\ reply.message \in {<<"tuiSongCeShi">>, <<"niHao">>, <<"ni","hao","ma">>, <<"bangZhu"," ">>}
          => reply.title = "unrecognizedCommand"
     /\ reply.message \in {<<"sheZhiDiQu","colon","bei","jing">>,
                           <<"chaKanChengShi","xiangQing">>, <<"chaKanChengShi">>,
                           <<"sheZhiTuiSongShiJian","colon","a","b">>}
          => reply.title = "formatError" /\ reply.type = "warning"

\* the body of the callback lacks data, uid or content
MissingFields == ~reply.hasData \/ reply.uid = "" \/ reply.contentKind \in {"missing", "empty"}

\* an error occurred while the callback processed the message
ErrorDuringProcessing ==
  reply.threw \/ \E i \in 1..Len(reply.pushes) : reply.pushes[i].outcome = "fail"

\* the push of the default answer was the last thing the callback did, and it failed
DefaultAnswerFailed ==
  /\ reply.pushes # <<>>
  /\ reply.pushes[Len(reply.pushes)].title = "unrecognized"
  /\ reply.pushes[Len(reply.pushes)].outcome = "fail"

\* C23 (as stated): 400 with success = false, store and pushes untouched, whenever
\* data, uid or content is missing; success = true when the message was processed;
\* 500 whenever an error occurs during processing.
C23_ErrorsYield500 ==
  reply.command = "callback"
  => /\ MissingFields
          => /\ reply.status = 400 /\ ~reply.success
             /\ prefFile.users = reply.before
             /\ reply.pushes = <<>> /\ reply.runs = <<>>
     /\ (~MissingFields /\ ~ErrorDuringProcessing) => (reply.status = 200 /\ reply.success)
     /\ (~MissingFields /\ ErrorDuringProcessing) => (reply.status = 500 /\ ~reply.success)

\* C23 (amended): 400 exactly for a body that lacks data, uid or content, with the
\* store and the pushes untouched; 500 exactly when the message was not handled and
\* the push of the default answer failed; otherwise success = true, an error inside
\* the handling of the message (a throw, a failed push of the reply) included.
C23_CallbackResponses ==
  reply.command = "callback"
  => /\ reply.status \in {200, 400, 500}
     /\ reply.success <=> reply.status = 200
     /\ MissingFields <=> reply.status = 400
     /\ MissingFields
          => /\ prefFile.users = reply.before
             /\ reply.pushes = <<>> /\ reply.runs = <<>>
     /\ ~MissingFields => (DefaultAnswerFailed <=> reply.status = 500)
     /\ reply.status = 200
          => /\ reply.pushes # <<>>
             /\ reply.pushes[Len(reply.pushes)].outcome = "ok"
             /\ reply.pushes[Len(reply.pushes)].uids = << reply.uid >>

C23_Witness ==
  /\ reply.command = "callback"
  /\ reply.status = 200
  /\ reply.success
  /\ reply.message = <<"dangQianDiQu">>
  /\ Len(reply.pushes) = 2
  /\ reply.pushes[1].outcome = "fail"
  /\ reply.pushes[2].title = "unrecognized"
  /\ reply.pushes[2].outcome = "ok"

\* the time text of a set-push-time message
TimeArg(message) == afterColon(message, <<"sheZhiTuiSongShiJian">>)

\* C24 (as stated): a set-push-time command whose time has the shape digits:digits
\* but is no 24-hour time leaves the stored pushTime as it was and is answered with
\* the failure card, never the success card.
C24_InvalidTimeGetsFailureCard ==
  (/\ reply.command = "message"
   /\ startsWith(reply.message, <<"sheZhiTuiSongShiJian">>)
   /\ pushTimeArgMatch(TimeArg(reply.message))
   /\ ~timePattern(formattedTime(TimeArg(reply.message))))
  => /\ prefFile.users[reply.uid].pushTime = reply.before[reply.uid].pushTime
     /\ reply.title = "setFailed"
     /\ reply.type = "error"

\* C25 (as stated): a callback message equal to "push test" runs the push pipeline
\* once, for the sending uid alone.
C25_PushTestRunsPipeline ==
  (/\ reply.command = "callback"
   /\ ~MissingFields
   /\ reply.contentKind = "string"
   /\ trim(reply.message) = <<"tuiSongCeShi">>)
  => reply.runs = << << reply.uid >> >>

\* the name of the location getUserLocationPreference resolves for uid in users
PreferredName(users, uid) ==
  getUserLocationPreference([exists |-> TRUE, users |-> users], NoAck, defaultCode, uid)
    .ret.location.name

\* C26 (as stated): the current-location card shows the name of the location
\* getUserLocationPreference resolves for the uid: the stored location's name, or
\* the default location's name.
C26_CurrentLocationShowsName ==
  (reply.command = "message" /\ reply.message = <<"dangQianDiQu">>)
  => reply.shown = PreferredName(reply.before, reply.uid)

\* call c goes from not running to running or returned in this step
CallStarts(c) ==
  /\ jwt.calls[c].pc \in {"idle", "returned", "threw"}
  /\ jwt'.calls[c].pc \in {"importing", "returned"}
  /\ jwt'.calls[c] # jwt.calls[c]

\* C22: a call made while no token is cached generates one (none exists before the
\* first call); a call made while a token is cached and the clock is not past
\* tokenExpiry - 5 min returns that token, generates nothing and leaves the cache
\* alone; a call made later generates, and its token and a new tokenExpiry
\* (50 min after the call) replace the cache when the generation succeeds.
C22_TokenCacheLifecycle ==
  [][\A c \in CallIds :
       /\ CallStarts(c)
            => /\ ~jwt.cachedToken.present
                    => jwt'.calls[c].pc = "importing" /\ jwt'.calls[c].generated
               /\ (jwt.cachedToken.present
                   /\ jwt.now <= jwt.tokenExpiry - earlyInvalidation)
                    => /\ jwt'.calls[c].pc = "returned"
                       /\ ~jwt'.calls[c].generated
                       /\ jwt'.calls[c].token = jwt.cachedToken
                       /\ jwt'.cachedToken = jwt.cachedToken
                       /\ jwt'.tokenExpiry = jwt.tokenExpiry
               /\ (jwt.cachedToken.present
                   /\ jwt.now > jwt.tokenExpiry - earlyInvalidation)
                    => jwt'.calls[c].pc = "importing" /\ jwt'.calls[c].generated
       /\ (jwt.calls[c].pc = "signing" /\ jwt'.calls[c].pc = "returned")
            => /\ jwt'.cachedToken = jwt'.calls[c].token
               /\ jwt'.cachedToken.iat = jwt.calls[c].iat
               /\ jwt'.tokenExpiry = jwt.calls[c].now + cacheLifetime
       /\ (~jwt.cachedToken.present /\ jwt'.cachedToken.present)
            => jwt.calls[c].pc = "signing" \/ jwt'.calls[c] = jwt.calls[c]]_vars

C22_Witness ==
  /\ jwt.now = 2760
  /\ jwt.calls["c1"].pc = "returned"
  /\ ~jwt.calls["c1"].generated
  /\ jwt.calls["c1"].now = 2700
  /\ jwt.calls["c1"].token.iat = 0 - issueSkew
  /\ jwt.calls["c2"].pc = "returned"
  /\ jwt.calls["c2"].generated
  /\ jwt.calls["c2"].now = 2760
  /\ jwt.cachedToken.iat = 2760 - issueSkew
  /\ jwt.tokenExpiry = 2760 + cacheLifetime

\* C28 (as stated): whenever a call returns a token, the token's signed expiry is
\* later than the time of the return.
C28_NeverExpiredOnReturn ==
  [][\A c \in CallIds :
       (jwt'.calls[c].pc = "returned" /\ jwt'.calls[c] # jwt.calls[c])
       => jwt'.calls[c].token.exp > jwt'.now]_vars

\* C28 (amended): the cached token outlives its cache entry (exp is more than 5
\* minutes past tokenExpiry), so a token returned from the cache is unexpired; a
\* token returned by the call that generated it is unexpired when the signature
\* took less than (3600 - 30) s from the clock read for iat; a failed generation
\* leaves cachedToken and tokenExpiry as they were.
C28_CachedTokenUnexpired ==
  [][/\ jwt'.cachedToken.present
          => jwt'.cachedToken.exp > jwt'.tokenExpiry + earlyInvalidation
     /\ \A c \in CallIds :
          /\ (CallStarts(c) /\ jwt'.calls[c].pc = "returned")
               => /\ jwt'.calls[c].token = jwt.cachedToken
                  /\ jwt'.calls[c].token.exp > jwt'.now
          /\ (jwt.calls[c].pc = "signing" /\ jwt'.calls[c].pc = "returned"
              /\ jwt.now - (jwt.calls[c].iat + issueSkew) < tokenLifetime - issueSkew)
               => jwt'.calls[c].token.exp > jwt'.now
          /\ (jwt'.calls[c].pc = "threw" /\ jwt.calls[c].pc # "threw")
               => /\ jwt'.cachedToken = jwt.cachedToken
                  /\ jwt'.tokenExpiry = jwt.tokenExpiry]_vars

C28_Witness ==
  /\ jwt.now = 2700
  /\ jwt.cachedToken.present
  /\ jwt.cachedToken.exp = 3570
  /\ jwt.calls["c1"].pc = "returned"
  /\ ~jwt.calls["c1"].generated
  /\ jwt.calls["c1"].now = 2700
  /\ jwt.calls["c1"].token = jwt.cachedToken
  /\ jwt.calls["c2"].pc = "threw"

\* C30: a getUserLocationPreference(uid) call leaves every uid's stored location
\* and pushTime as they were and creates no record; the users change at all only
\* when uid had a record without a location, which then holds the default location.
C30_GetPreferenceFrame ==
  lastCall.op = "getUserLocationPreference"
  => /\ \A u \in Uids :
          /\ prefFile.users[u].present = lastCall.before[u].present
          /\ prefFile.users[u].pushTime = lastCall.before[u].pushTime
          /\ lastCall.before[u].location.set
               => prefFile.users[u].location = lastCall.before[u].location
          /\ u # lastCall.uid => prefFile.users[u] = lastCall.before[u]
     /\ prefFile.users # lastCall.before
          => /\ lastCall.before[lastCall.uid].present
             /\ ~lastCall.before[lastCall.uid].location.set
             /\ prefFile.users[lastCall.uid].location = defaultLocation(defaultCode)
     /\ (lastCall.before[lastCall.uid].present /\ ~lastCall.before[lastCall.uid].location.set)
          => prefFile.users[lastCall.uid].location = defaultLocation(defaultCode)

C30_Witness ==
  /\ lastCall.op = "getUserLocationPreference"
  /\ lastCall.uid = "u1"
  /\ lastCall.before["u1"].present
  /\ ~lastCall.before["u1"].location.set
  /\ lastCall.before["u1"].pushTime = <<"0","8",":","3","0">>
  /\ prefFile.users["u1"].location = defaultLocation(defaultCode)
  /\ prefFile.users["u1"].pushTime = <<"0","8",":","3","0">>
  /\ ~prefFile.users["u2"].present

Settles(t) ==
  \/ \E response \in LookupResponses : LookupReturn(t, response)
  \/ \E outcome \in {"ok", "fail", "short"} : FetchReturn(t, outcome)
  \/ SuggestReturn(t)
  \/ \E outcome \in {"ok", "fail"} : FormatReturn(t, outcome)
  \/ \E outcome \in {"ok", "fail"} : PushReturn(t, outcome)

\* C29: when every awaited request settles, an invocation of the job that is in
\* flight completes, having started the pipeline of every matched uid; and an
\* invocation in flight moves on (to the next step, the next uid, or the end) only
\* in a step in which the request it awaits settles, so while that request is
\* pending the uid's pipeline and the uids after it stay where they are.
C29_TickTerminates ==
  /\ \A t \in TickIds :
       [](ticks[t].pc \in InFlight \cup {"lookup"}
          => <>(ticks[t].pc = "done" /\ ticks[t].invoked = ticks[t].usersToPush))
  /\ [][\A t \in TickIds :
          (/\ ticks[t].pc \in InFlight \cup {"lookup"}
           /\ \/ ticks'[t].pc # ticks[t].pc
              \/ ticks'[t].idx # ticks[t].idx
              \/ ticks'[t].invoked # ticks[t].invoked)
          => Settles(t)]_vars

C29_Witness ==
  \E t \in TickIds :
    /\ ticks[t].pc = "done"
    /\ ticks[t].usersToPush = <<"u1", "u2">>
    /\ ticks[t].invoked = <<"u1", "u2">>
    /\ ticks[t].failed = <<"u1">>

====
